---- MODULE Spec2Model ----
(***************************************************************************)
(* TermNova: the scripted-terminal animation pipeline.                     *)
(*                                                                         *)
(*   parseLines               script lines -> entries (canvasRenderer)     *)
(*   generateAnimationFrames  entries -> timed export frames               *)
(*   useMultiLineTyping       the live requestAnimationFrame driver        *)
(*   Terminal / App           the view that hosts the driver               *)
(*                                                                         *)
(* Texts are sequences of one-character strings.  Indices keep the         *)
(* source's 0-based values (lineIdx, charIdx, cursorLineIndex); a TLA+     *)
(* sequence is read at index + 1.                                          *)
(***************************************************************************)
EXTENDS Integers, Sequences, FiniteSets, TLC

VARIABLES
    \* generateAnimationFrames
    parsedLines,        \* its parsedLines argument
    targetFrameCount,   \* options.targetFrameCount
    frames,             \* the frames returned by the last call
    \* exportAsGIF
    exportStep,         \* how far the export got: "idle", "filtered", "parsed", "scaled", "sized"
    filteredLines,      \* App: lines = inputText.split('\n').filter(...)
    \* generateAnimationFrames: auto-scaling to fixed target dimensions
    sizeConfig,         \* config: fontSize, padding, lineHeight (tenths), showTitle
    content,            \* finalLines: their number, the characters of the longest,
                        \* whether they show the prompt; the prompt's segments
    target,             \* options.targetWidth, options.targetHeight (0: null)
    adjustedConfig,     \* adjustedConfig: fontSize, padding
    \* createGIF
    gifInput,           \* its frames argument
    gifWritten,         \* the frames written to the encoder, in writing order
    gifI,               \* the loop index i
    gifPc,              \* where the call stands
    gifProgress,        \* the values passed to onProgress, times frames.length
    \* App
    typingSpeed,        \* config.typingSpeed
    outputMode,         \* config.outputMode || 'typing'
    inputText,          \* inputText.split('\n'): the script's raw lines
    isAnimating,        \* App state isAnimating
    playTimers,         \* handlePlay's setTimeout callbacks not yet run
    \* useMultiLineTyping, the instance of the preview Terminal
    displayedLines,     \* committed state displayedLines
    isComplete,         \* committed state isComplete
    currentLineIndex,   \* committed state currentLineIndex
    animationRef,       \* animationRef.current (0: null)
    cleanupRegistered,  \* the main effect's last run returned its cleanup
    closures,           \* run -> the locals and captured props of that effect run
    currentRun,         \* the run created by the main effect's last start (0: none)
    rafQueue,           \* requestAnimationFrame callbacks scheduled: {[handle, run]}
    updateQueue,        \* state updates queued by set* calls, not yet rendered
    \* history of the driver, read by the properties only
    phase,              \* what last (re)started or stopped the driver
    notifying,          \* the last step called onAnimationComplete
    clocks              \* tick timestamps: ms since and between the reveals

scaleVars == <<sizeConfig, content, target, adjustedConfig>>

gifVars == <<gifInput, gifWritten, gifI, gifPc, gifProgress>>

genVars == <<parsedLines, targetFrameCount, frames, exportStep, filteredLines,
             scaleVars, gifVars>>

configVars == <<typingSpeed, outputMode>>

appVars == <<inputText, isAnimating, playTimers>>

hookVars == <<displayedLines, isComplete, currentLineIndex, animationRef,
              cleanupRegistered, closures, currentRun, rafQueue, updateQueue>>

historyVars == <<phase, notifying, clocks>>

vars == <<genVars, configVars, appVars, hookVars, historyVars>>

----------------------------------------------------------------------------
(* Bounds of the model *)

MaxEntries == 3     \* entries of a list handed to the generator directly

MaxQueue == 3       \* queued state updates beyond which a render comes first

MaxPlayTimers == 1  \* handlePlay timeouts pending at once

MaxLines == 3       \* lines of a list handed to parseLines directly

MaxBatch == 8       \* lines of an instant batch whose hold is computed

MaxClock == 400     \* ms beyond which a time between two ticks is not told apart

----------------------------------------------------------------------------
(* JavaScript helpers *)

Min(a, b) == IF a <= b THEN a ELSE b

Max(a, b) == IF a >= b THEN a ELSE b

\* CeilDiv rounding down
FloorDiv(a, b) == a \div b

\* Math.ceil(a / b) for a >= 0, b > 0
CeilDiv(a, b) == (a + b - 1) \div b

\* substring0 taking the last n characters
substring0FromEnd(s, n) == SubSeq(s, Len(s) - Min(n, Len(s)) + 1, Len(s))

\* s.substring(0, n)
substring0(s, n) == SubSeq(s, 1, Min(n, Len(s)))

IsSpace(c) == c = " "

RECURSIVE trimStart(_)
trimStart(s) ==
    IF s = <<>> THEN s
    ELSE IF IsSpace(Head(s)) THEN trimStart(Tail(s)) ELSE s

RECURSIVE trimEnd(_)
trimEnd(s) ==
    IF s = <<>> THEN s
    ELSE IF IsSpace(s[Len(s)]) THEN trimEnd(SubSeq(s, 1, Len(s) - 1)) ELSE s

trim(s) == trimEnd(trimStart(s))

\* startsWith that never matches
startsWithNever(s, c) == FALSE

startsWith(s, c) == Len(s) > 0 /\ s[1] = c

----------------------------------------------------------------------------
(* parseLines (canvasRenderer) *)

\* BlockMarker of one character
BlockMarkerSingle == <<"!">>

BlockMarker == <<"!", "!">>

\* CommandEntry taking the instant flag as set
CommandEntryInstant(command) ==
    [type |-> "command", text |-> command, showPrompt |-> TRUE, instant |-> TRUE]

CommandEntry(command) ==
    [type |-> "command", text |-> command, showPrompt |-> TRUE, instant |-> FALSE]

\* OutputEntry ignoring the block state
OutputEntryNeverInstant(line, inInstantBlock) ==
    [type |-> "output", text |-> line, showPrompt |-> FALSE, instant |-> FALSE]

OutputEntry(line, inInstantBlock) ==
    [type |-> "output", text |-> line, showPrompt |-> FALSE, instant |-> inInstantBlock]

RECURSIVE parseLinesFrom(_, _, _)
parseLinesFrom(inputLines, inInstantBlock, result) ==
    IF inputLines = <<>> THEN result
    ELSE LET line == Head(inputLines)
             trimmedStart == trimStart(line)
         IN  IF trim(line) = BlockMarker
             THEN parseLinesFrom(Tail(inputLines), ~inInstantBlock, result)
             ELSE IF startsWith(trimmedStart, ">")
             THEN parseLinesFrom(Tail(inputLines), inInstantBlock,
                      Append(result, CommandEntry(trimStart(Tail(trimmedStart)))))
             ELSE parseLinesFrom(Tail(inputLines), inInstantBlock,
                      Append(result, OutputEntry(line, inInstantBlock)))

parseLines(inputLines) == parseLinesFrom(inputLines, FALSE, <<>>)

----------------------------------------------------------------------------
(* generateAnimationFrames (canvasRenderer) *)

\* shouldBeInstant ignoring outputMode
shouldBeInstantFlagOnly(lineInfo, mode) == lineInfo.instant

\* (outputMode === 'instant' && !l.showPrompt) || l.instant
shouldBeInstant(lineInfo, mode) ==
    (mode = "instant" /\ ~lineInfo.showPrompt) \/ lineInfo.instant

RECURSIVE typedCharsOf(_, _)
typedCharsOf(entries, mode) ==
    IF entries = <<>> THEN 0
    ELSE (IF shouldBeInstant(Head(entries), mode) THEN 0 ELSE Len(Head(entries).text))
         + typedCharsOf(Tail(entries), mode)

\* charsPerFrameOf without the throttle: a frame for every character
charsPerFrameOne(entries, mode, tfc) == 1

\* Math.max(1, Math.ceil(typedChars / targetFrameCount))
charsPerFrameOf(entries, mode, tfc) ==
    Max(1, CeilDiv(typedCharsOf(entries, mode), tfc))

\* drawTerminalCursors with the new-line cursor only past the line after the last
drawTerminalCursorsPast(displayState) ==
    [inLine |-> {lineIdx \in 0..(Len(displayState.lines) - 1) :
                    displayState.cursorLineIndex = lineIdx},
     newLine |-> displayState.cursorLineIndex > Len(displayState.lines)]

\* drawTerminal, showCursor true: the lines it draws a cursor at the end of,
\* and whether it draws the cursor on a new line after the last
drawTerminalCursors(displayState) ==
    [inLine |-> {lineIdx \in 0..(Len(displayState.lines) - 1) :
                    displayState.cursorLineIndex = lineIdx},
     newLine |-> displayState.cursorLineIndex >= Len(displayState.lines)]

\* createFrame(lines, cursorLineIndex, delay): the display state a frame paints
createFrame(lines, cursorLineIndex, delay) ==
    [lines |-> lines, cursorLineIndex |-> cursorLineIndex, delay |-> delay]

\* displayLines[idx] = value on a JavaScript array filled in index order
SetLine(displayLines, idx, value) ==
    IF idx < Len(displayLines)
    THEN [displayLines EXCEPT ![idx + 1] = value]
    ELSE Append(displayLines, value)

\* BatchInstant without the batching loop: every instant entry alone
BatchInstantNone(displayLines, batchEndIdx, entries, mode) ==
    [displayLines |-> displayLines, batchEndIdx |-> batchEndIdx]

\* the batching loop: extend the batch over the instant entries that follow
RECURSIVE BatchInstant(_, _, _, _)
BatchInstant(displayLines, batchEndIdx, entries, mode) ==
    IF batchEndIdx + 1 < Len(entries)
       /\ shouldBeInstant(entries[batchEndIdx + 2], mode)
    THEN BatchInstant(
             SetLine(displayLines, batchEndIdx + 1,
                     [text |-> entries[batchEndIdx + 2].text,
                      showPrompt |-> entries[batchEndIdx + 2].showPrompt]),
             batchEndIdx + 1, entries, mode)
    ELSE [displayLines |-> displayLines, batchEndIdx |-> batchEndIdx]

\* BatchDelay without the cap on the per-line delay
BatchDelayUncapped(outputLineCount) ==
    Min(150 + 50 * outputLineCount, 400)

\* Math.min(totalDelay, 400) with perLineDelay = Math.min(50, 200 / count):
\* count * perLineDelay is min(50 * count, 200)
BatchDelay(outputLineCount) ==
    Min(150 + Min(50 * outputLineCount, 200), 400)

\* TypeChars with the loop bound off by one: the last character never revealed
RECURSIVE TypeCharsShort(_, _, _, _, _, _)
TypeCharsShort(st, lineIdx, fullText, charIdx, charsPerFrame, speed) ==
    IF charIdx >= Len(fullText) - 1 THEN st
    ELSE LET dl == [st.displayLines EXCEPT
                       ![lineIdx + 1].text = substring0(fullText, charIdx + 1)]
             cc == st.charCounter + 1
             fr == IF cc % charsPerFrame = 0 \/ charIdx = Len(fullText) - 2
                   THEN Append(st.frames, createFrame(dl, lineIdx, Max(30, speed)))
                   ELSE st.frames
         IN  TypeCharsShort([st EXCEPT !.displayLines = dl, !.charCounter = cc,
                                       !.frames = fr],
                            lineIdx, fullText, charIdx + 1, charsPerFrame, speed)

\* TypeChars counting the characters of each line from zero
RECURSIVE TypeCharsPerLine(_, _, _, _, _, _)
TypeCharsPerLine(st, lineIdx, fullText, charIdx, charsPerFrame, speed) ==
    IF charIdx >= Len(fullText) THEN st
    ELSE LET dl == [st.displayLines EXCEPT
                       ![lineIdx + 1].text = substring0(fullText, charIdx + 1)]
             fr == IF (charIdx + 1) % charsPerFrame = 0 \/ charIdx = Len(fullText) - 1
                   THEN Append(st.frames, createFrame(dl, lineIdx, Max(30, speed)))
                   ELSE st.frames
         IN  TypeCharsPerLine([st EXCEPT !.displayLines = dl, !.frames = fr],
                              lineIdx, fullText, charIdx + 1, charsPerFrame, speed)

\* the character loop of a typed entry
RECURSIVE TypeChars(_, _, _, _, _, _)
TypeChars(st, lineIdx, fullText, charIdx, charsPerFrame, speed) ==
    IF charIdx >= Len(fullText) THEN st
    ELSE LET dl == [st.displayLines EXCEPT
                       ![lineIdx + 1].text = substring0(fullText, charIdx + 1)]
             cc == st.charCounter + 1
             fr == IF cc % charsPerFrame = 0 \/ charIdx = Len(fullText) - 1
                   THEN Append(st.frames, createFrame(dl, lineIdx, Max(30, speed)))
                   ELSE st.frames
         IN  TypeChars([st EXCEPT !.displayLines = dl, !.charCounter = cc,
                                  !.frames = fr],
                       lineIdx, fullText, charIdx + 1, charsPerFrame, speed)

\* InterLine without the frame
InterLineNone(st, entries) == st

\* InterLine without its condition: a frame after the last entry too
InterLineAlways(st, entries) ==
    [st EXCEPT !.frames =
        Append(st.frames, createFrame(st.displayLines, st.lineIdx, 150))]

\* the inter-line frame pushed at the end of a loop iteration
InterLine(st, entries) ==
    IF st.lineIdx < Len(entries)
    THEN [st EXCEPT !.frames =
             Append(st.frames, createFrame(st.displayLines, st.lineIdx, 150))]
    ELSE st

\* one iteration of while (lineIdx < parsedLines.length)
GenIteration(st, entries, mode, charsPerFrame, speed) ==
    LET lineInfo == entries[st.lineIdx + 1]
        dl0 == SetLine(st.displayLines, st.lineIdx,
                       [text |-> <<>>, showPrompt |-> lineInfo.showPrompt])
    IN  IF shouldBeInstant(lineInfo, mode)
        THEN LET dl1 == [dl0 EXCEPT ![st.lineIdx + 1].text = lineInfo.text]
                 b == BatchInstant(dl1, st.lineIdx, entries, mode)
                 outputLineCount == b.batchEndIdx - st.lineIdx + 1
             IN  InterLine(
                     [st EXCEPT !.displayLines = b.displayLines,
                                !.frames = Append(st.frames,
                                    createFrame(b.displayLines, b.batchEndIdx,
                                                BatchDelay(outputLineCount))),
                                !.lineIdx = b.batchEndIdx + 1],
                     entries)
        ELSE LET t == TypeChars([st EXCEPT !.displayLines = dl0], st.lineIdx,
                                lineInfo.text, 0, charsPerFrame, speed)
             IN  InterLine([t EXCEPT !.lineIdx = st.lineIdx + 1], entries)

RECURSIVE GenLoop(_, _, _, _, _)
GenLoop(st, entries, mode, charsPerFrame, speed) ==
    IF st.lineIdx < Len(entries)
    THEN GenLoop(GenIteration(st, entries, mode, charsPerFrame, speed),
                 entries, mode, charsPerFrame, speed)
    ELSE st

\* generateAnimationFrames without the final frame
generateAnimationFramesNoFinal(entries, mode, tfc, speed) ==
    LET st0 == [frames |-> <<createFrame(<<>>, 0, 500)>>,
                displayLines |-> <<>>, charCounter |-> 0, lineIdx |-> 0]
    IN  GenLoop(st0, entries, mode, charsPerFrameOf(entries, mode, tfc), speed).frames

generateAnimationFrames(entries, mode, tfc, speed) ==
    LET st0 == [frames |-> <<createFrame(<<>>, 0, 500)>>,
                displayLines |-> <<>>, charCounter |-> 0, lineIdx |-> 0]
        st == GenLoop(st0, entries, mode, charsPerFrameOf(entries, mode, tfc), speed)
    IN  Append(st.frames, createFrame(st.displayLines, Len(entries), 2000))

----------------------------------------------------------------------------
(* The parts of the export that a specification leaves alone *)

\* lastTime = 0: not set yet.  The model keeps timestamp - lastTime and
\* timestamp - waitStartTime instead of the absolute times.
NoTime == -1

\* no tick has run: nothing revealed, nothing completed
NoClocks ==
    [sinceReveal |-> NoTime, sinceComplete |-> NoTime, revealGap |-> NoTime,
     lineGap |-> NoTime]

\* no auto-scaling asked for: a configuration with no target dimensions
ScaleIdle ==
    /\ sizeConfig = [fontSize |-> 14, padding |-> 20, lineHeight |-> 15,
                     showTitle |-> TRUE]
    /\ content = [lines |-> 0, chars |-> 0, showPrompt |-> FALSE, prompt |-> <<2>>]
    /\ target = [width |-> 0, height |-> 0]
    /\ adjustedConfig = [fontSize |-> 14, padding |-> 20]

\* createGIF not called
GifIdle ==
    /\ gifInput = <<>>
    /\ gifWritten = <<>>
    /\ gifI = 0
    /\ gifPc = "idle"
    /\ gifProgress = <<>>

----------------------------------------------------------------------------
(* The generator called on arbitrary entry lists *)

GenTexts == {<<>>, <<"a">>, <<"b", "c">>}

GenEntries ==
    {[type |-> IF p THEN "command" ELSE "output", text |-> t,
      showPrompt |-> p, instant |-> i] : t \in GenTexts, p \in BOOLEAN, i \in BOOLEAN}

RECURSIVE SeqsUpTo(_, _)
SeqsUpTo(S, n) ==
    IF n = 0 THEN {<<>>}
    ELSE LET shorter == SeqsUpTo(S, n - 1)
         IN  shorter \cup {Append(s, x) : s \in {q \in shorter : Len(q) = n - 1}, x \in S}

OutputModes == {"typing", "instant"}

\* instant blocks of output lines, from four lines on
InstantBlocks ==
    {[i \in 1..n |-> [type |-> "output", text |-> <<"a">>, showPrompt |-> FALSE,
                      instant |-> TRUE]] : n \in 4..MaxBatch}

InitGen ==
    /\ parsedLines \in SeqsUpTo(GenEntries, MaxEntries) \cup InstantBlocks
    /\ targetFrameCount \in {1, 2}
    /\ typingSpeed \in {20, 50}
    /\ outputMode \in OutputModes
    /\ frames = <<>>
    /\ exportStep = "idle"
    /\ filteredLines = <<>>
    /\ ScaleIdle
    /\ GifIdle
    /\ inputText = <<>>
    /\ isAnimating = FALSE
    /\ playTimers = 0
    /\ displayedLines = <<>>
    /\ isComplete = FALSE
    /\ currentLineIndex = 0
    /\ animationRef = 0
    /\ cleanupRegistered = FALSE
    /\ closures = <<>>
    /\ currentRun = 0
    /\ rafQueue = {}
    /\ updateQueue = <<>>
    /\ phase = "idle"
    /\ notifying = FALSE
    /\ clocks = NoClocks

GenerateFrames ==
    /\ frames = <<>>
    /\ frames' = generateAnimationFrames(parsedLines, outputMode, targetFrameCount,
                                         typingSpeed)
    /\ UNCHANGED <<parsedLines, targetFrameCount, exportStep, filteredLines, scaleVars,
                   gifVars, configVars, appVars, hookVars, historyVars>>

NextGen == GenerateFrames

SpecGen == InitGen /\ [][NextGen]_vars

----------------------------------------------------------------------------
(* parseLines called on arbitrary line lists *)

\* lines of a script: markers (bare and padded), commands (bare, indented,
\* empty, with the marker as their text), outputs, a blank line
ParseTexts ==
    {<<"!", "!">>, <<" ", "!", "!", " ">>, <<">", "a">>, <<" ", ">", " ", "a", " ">>,
     <<">">>, <<">", "!", "!">>, <<"b">>, <<"b", ">">>, <<>>}

InitParse ==
    /\ inputText \in SeqsUpTo(ParseTexts, MaxLines)
    /\ parsedLines = <<>>
    /\ exportStep = "idle"
    /\ filteredLines = <<>>
    /\ ScaleIdle
    /\ GifIdle
    /\ targetFrameCount = 40
    /\ frames = <<>>
    /\ typingSpeed = 50
    /\ outputMode = "typing"
    /\ isAnimating = FALSE
    /\ playTimers = 0
    /\ displayedLines = <<>>
    /\ isComplete = FALSE
    /\ currentLineIndex = 0
    /\ animationRef = 0
    /\ cleanupRegistered = FALSE
    /\ closures = <<>>
    /\ currentRun = 0
    /\ rafQueue = {}
    /\ updateQueue = <<>>
    /\ phase = "idle"
    /\ notifying = FALSE
    /\ clocks = NoClocks

\* const parsedLineInfo = parseLines(lines, config.promptText)
ParseLines ==
    /\ exportStep = "idle"
    /\ parsedLines' = parseLines(inputText)
    /\ exportStep' = "parsed"
    /\ UNCHANGED <<targetFrameCount, frames, filteredLines, scaleVars, gifVars, configVars,
                   appVars, hookVars, historyVars>>

NextParse == ParseLines

SpecParse == InitParse /\ [][NextParse]_vars

----------------------------------------------------------------------------
(* App: the script and what the preview Terminal is given *)

IsBlank(line) == trim(line) = <<>>

\* FilterLines dropping every blank line
FilterLinesNoBlank(raw) ==
    LET F[i \in 0..Len(raw)] ==
            IF i = 0 THEN <<>>
            ELSE IF ~IsBlank(raw[i]) THEN Append(F[i - 1], raw[i]) ELSE F[i - 1]
    IN  F[Len(raw)]

\* inputText.split('\n').filter(...): drop the blank lines no content follows
FilterLines(raw) ==
    LET keep(i) == ~IsBlank(raw[i]) \/ \E j \in (i + 1)..Len(raw) : ~IsBlank(raw[j])
        F[i \in 0..Len(raw)] ==
            IF i = 0 THEN <<>>
            ELSE IF keep(i) THEN Append(F[i - 1], raw[i]) ELSE F[i - 1]
    IN  F[Len(raw)]

\* Terminal: parsedLineInfo and lineTexts of the script
parsedLineInfoOf(raw) == parseLines(FilterLines(raw))

lineTextsOf(raw) ==
    LET info == parsedLineInfoOf(raw) IN [i \in 1..Len(info) |-> info[i].text]

parsedLineInfo == parsedLineInfoOf(inputText)

lineTexts == lineTextsOf(inputText)

\* the lineDelay Terminal passes to the hook
LineDelay == 300

----------------------------------------------------------------------------
(* App's line filter on arbitrary texts *)

\* lines of a text: empty, whitespace only, content, indented content
FilterTexts == {<<>>, <<" ">>, <<"d">>, <<" ", "d">>}

InitFilter ==
    /\ inputText \in SeqsUpTo(FilterTexts, MaxLines)
    /\ filteredLines = <<>>
    /\ exportStep = "idle"
    /\ parsedLines = <<>>
    /\ targetFrameCount = 40
    /\ frames = <<>>
    /\ ScaleIdle
    /\ GifIdle
    /\ typingSpeed = 50
    /\ outputMode = "typing"
    /\ isAnimating = FALSE
    /\ playTimers = 0
    /\ displayedLines = <<>>
    /\ isComplete = FALSE
    /\ currentLineIndex = 0
    /\ animationRef = 0
    /\ cleanupRegistered = FALSE
    /\ closures = <<>>
    /\ currentRun = 0
    /\ rafQueue = {}
    /\ updateQueue = <<>>
    /\ phase = "idle"
    /\ notifying = FALSE
    /\ clocks = NoClocks

\* const lines = inputText.split('\n').filter(...)
FilterInput ==
    /\ exportStep = "idle"
    /\ filteredLines' = FilterLines(inputText)
    /\ exportStep' = "filtered"
    /\ UNCHANGED <<parsedLines, targetFrameCount, frames, scaleVars, gifVars,
                   configVars, appVars, hookVars, historyVars>>

NextFilter == FilterInput

SpecFilter == InitFilter /\ [][NextFilter]_vars

----------------------------------------------------------------------------
(* useMultiLineTyping: state updates *)

\* an element of displayedLines
DisplayLine(text, complete) == [text |-> text, complete |-> complete]

\* what an array index never written holds
UndefinedLine == DisplayLine(<<"undefined">>, FALSE)

\* the updates a set* call queues; an updater function reads lineIdx and charIdx
\* of its effect run when React applies it, currentLine is the tick's constant
Update(op, run, currentLine, lines, index, flag) ==
    [op |-> op, run |-> run, currentLine |-> currentLine, lines |-> lines,
     index |-> index, flag |-> flag]

SetDisplayedLines(lines) == Update("setDisplayedLines", 0, <<>>, lines, 0, FALSE)

SetCurrentLineIndex(index) == Update("setCurrentLineIndex", 0, <<>>, <<>>, index, FALSE)

SetIsComplete(flag) == Update("setIsComplete", 0, <<>>, <<>>, 0, flag)

\* setDisplayedLines(prev => { newLines[lineIdx] = {text: currentLine, complete: true} })
UpdateLineComplete(run, currentLine) ==
    Update("lineComplete", run, currentLine, <<>>, 0, FALSE)

\* setDisplayedLines(prev => { newLines[lineIdx] =
\*     {text: currentLine.substring(0, charIdx), complete: false} })
UpdateLineTyping(run, currentLine) ==
    Update("lineTyping", run, currentLine, <<>>, 0, FALSE)

\* newLines = [...prev]; newLines[idx] = value
RECURSIVE WriteLine(_, _, _)
WriteLine(prev, idx, value) ==
    IF idx < Len(prev) THEN [prev EXCEPT ![idx + 1] = value]
    ELSE IF idx = Len(prev) THEN Append(prev, value)
    ELSE WriteLine(Append(prev, UndefinedLine), idx, value)

\* React applying one queued update to the hook's state
ApplyUpdate(st, u, cls) ==
    CASE u.op = "setDisplayedLines" -> [st EXCEPT !.displayedLines = u.lines]
      [] u.op = "setCurrentLineIndex" -> [st EXCEPT !.currentLineIndex = u.index]
      [] u.op = "setIsComplete" -> [st EXCEPT !.isComplete = u.flag]
      [] u.op = "lineComplete" ->
            [st EXCEPT !.displayedLines =
                WriteLine(@, cls[u.run].lineIdx, DisplayLine(u.currentLine, TRUE))]
      [] u.op = "lineTyping" ->
            [st EXCEPT !.displayedLines =
                WriteLine(@, cls[u.run].lineIdx,
                          DisplayLine(substring0(u.currentLine, cls[u.run].charIdx),
                                      FALSE))]

RECURSIVE ApplyQueue(_, _, _)
ApplyQueue(st, queue, cls) ==
    IF queue = <<>> THEN st
    ELSE ApplyQueue(ApplyUpdate(st, Head(queue), cls), Tail(queue), cls)

Committed ==
    [displayedLines |-> displayedLines, isComplete |-> isComplete,
     currentLineIndex |-> currentLineIndex]

\* the state the next render shows
Rendered == ApplyQueue(Committed, updateQueue, closures)

----------------------------------------------------------------------------
(* useMultiLineTyping: requestAnimationFrame *)

Handles(raf) == {cb.handle : cb \in raf}

\* a handle never returned before: the least one in use nowhere
FreshHandle(raf, used) ==
    CHOOSE h \in 1..(Cardinality(raf) + Cardinality(used) + 1) :
        /\ h \notin Handles(raf) \cup used
        /\ \A k \in 1..(h - 1) : k \in Handles(raf) \cup used

\* cancelAnimationFrame(handle)
cancelAnimationFrame(raf, handle) == {cb \in raf : cb.handle # handle}

\* if (animationRef.current) cancelAnimationFrame(animationRef.current)
CancelCurrent(raf, ref) == IF ref # 0 THEN cancelAnimationFrame(raf, ref) ELSE raf

----------------------------------------------------------------------------
(* useMultiLineTyping: the main effect *)


\* the locals of one effect run and the props its closures captured
NewClosure(lns, info, speed, mode) ==
    [lines |-> lns, lineInfo |-> info, speed |-> speed, outputMode |-> mode,
     lineIdx |-> 0, charIdx |-> 0, sinceLastTime |-> NoTime,
     waitingForNextLine |-> FALSE, sinceWaitStart |-> 0]

shouldTypeLine(mode, info, idx) ==
    IF mode # "instant" THEN TRUE
    ELSE IF idx < Len(info) THEN info[idx + 1].showPrompt
    ELSE TRUE

\* a run id for a new closure: one no scheduled callback belongs to
FreshRun(raf) ==
    CHOOSE r \in 1..(Cardinality(raf) + 1) :
        /\ r \notin {cb.run : cb \in raf}
        /\ \A k \in 1..(r - 1) : k \in {cb.run : cb \in raf}

\* the closures still reachable: of scheduled callbacks and of the current run
KeepClosures(cls, raf, cur) ==
    [r \in {x \in DOMAIN cls : x = cur \/ x \in {cb.run : cb \in raf}} |-> cls[r]]

\* EffectCleanup that cancels nothing
EffectCleanupNoCancel(raf, ref) == raf

\* the cleanup the animation branch returns
EffectCleanup(raf, ref) == CancelCurrent(raf, ref)

\* the effect body with the props of this render; raf, ref: after the cleanup
MainEffect(raf, ref, cls, enabled, lns, info, speed, mode) ==
    IF ~enabled
    THEN [queue |-> (IF Len(lns) = 0 THEN <<SetDisplayedLines(<<>>)>> ELSE <<>>)
                    \o <<SetIsComplete(TRUE)>>,
          raf |-> raf, ref |-> ref, closures |-> KeepClosures(cls, raf, 0),
          run |-> 0, started |-> FALSE]
    ELSE IF Len(lns) = 0
    THEN [queue |-> <<SetDisplayedLines(<<>>), SetIsComplete(TRUE)>>,
          raf |-> raf, ref |-> ref, closures |-> KeepClosures(cls, raf, 0),
          run |-> 0, started |-> FALSE]
    ELSE LET h == FreshHandle(raf, {ref})
             r == FreshRun(raf)
             kept == KeepClosures(cls, raf, 0)
         IN  [queue |-> <<SetDisplayedLines(<<>>), SetCurrentLineIndex(0),
                          SetIsComplete(FALSE)>>,
              raf |-> raf \cup {[handle |-> h, run |-> r]},
              ref |-> h,
              closures |-> [x \in DOMAIN kept \cup {r} |->
                               IF x = r THEN NewClosure(lns, info, speed, mode)
                               ELSE kept[x]],
              run |-> r, started |-> TRUE]

\* one call of animate for closure c of run r, its times already advanced
\* to this frame's timestamp
animate(c, r) ==
    LET n == Len(c.lines)
        currentLine == c.lines[c.lineIdx + 1]
        last == ~(c.lineIdx < n - 1)
        finishLine ==
            [c |-> IF last THEN c
                   ELSE [c EXCEPT !.waitingForNextLine = TRUE, !.sinceWaitStart = 0],
             sets |-> <<UpdateLineComplete(r, currentLine)>>
                      \o (IF last THEN <<SetIsComplete(TRUE)>> ELSE <<>>),
             again |-> ~last, done |-> last]
    IN  IF c.waitingForNextLine
        THEN IF c.sinceWaitStart >= LineDelay
             THEN [c |-> [c EXCEPT !.waitingForNextLine = FALSE,
                                   !.lineIdx = c.lineIdx + 1, !.charIdx = 0,
                                   !.sinceLastTime = 0, !.sinceWaitStart = 0],
                   sets |-> <<SetCurrentLineIndex(c.lineIdx + 1)>>,
                   again |-> TRUE, done |-> FALSE]
             ELSE [c |-> c, sets |-> <<>>, again |-> TRUE, done |-> FALSE]
        ELSE IF c.lineIdx >= n
        THEN [c |-> c, sets |-> <<SetIsComplete(TRUE)>>, again |-> FALSE, done |-> TRUE]
        ELSE IF ~shouldTypeLine(c.outputMode, c.lineInfo, c.lineIdx)
        THEN finishLine
        ELSE IF c.sinceLastTime < c.speed
        THEN [c |-> c, sets |-> <<>>, again |-> TRUE, done |-> FALSE]
        ELSE IF c.charIdx < Len(currentLine)
        THEN [c |-> [c EXCEPT !.sinceLastTime = 0, !.charIdx = c.charIdx + 1],
              sets |-> <<UpdateLineTyping(r, currentLine)>>,
              again |-> TRUE, done |-> FALSE]
        ELSE [finishLine EXCEPT !.c.sinceLastTime = 0]

\* AdvanceTime counting every frame twice
AdvanceTimeTwice(c, d) ==
    [c EXCEPT !.sinceLastTime = IF @ = NoTime THEN 0 ELSE @ + 2 * d,
              !.sinceWaitStart = IF c.waitingForNextLine THEN @ + 2 * d ELSE @]

\* the times of a closure at a frame d ms after the previous one
AdvanceTime(c, d) ==
    [c EXCEPT !.sinceLastTime = IF @ = NoTime THEN 0 ELSE @ + d,
              !.sinceWaitStart = IF c.waitingForNextLine THEN @ + d ELSE @]

\* reset(): the updates it queues
resetUpdates == <<SetDisplayedLines(<<>>), SetCurrentLineIndex(0), SetIsComplete(FALSE)>>

\* skipToEndUpdates that leaves currentLineIndex where it was
skipToEndUpdatesNoIndex(lns) ==
    <<SetDisplayedLines([i \in 1..Len(lns) |-> DisplayLine(lns[i], TRUE)]),
      SetIsComplete(TRUE)>>

\* skipToEnd(): the updates it queues
skipToEndUpdates(lns) ==
    <<SetDisplayedLines([i \in 1..Len(lns) |-> DisplayLine(lns[i], TRUE)]),
      SetCurrentLineIndex(Len(lns)),
      SetIsComplete(TRUE)>>

----------------------------------------------------------------------------
(* The preview: App, Terminal and the hook *)

\* > ab / c
ScriptA == << <<">", "a", "b">>, <<"c">> >>

\* > a / !! / b / cd / !!
ScriptB == << <<">", " ", "a">>, <<"!", "!">>, <<"b">>, <<"c", "d">>, <<"!", "!">> >>

\* a blank line before the content, one after it
ScriptBlank == << <<>>, <<"d">>, <<" ">> >>

Scripts == {<<>>, ScriptA, ScriptB, ScriptBlank}

Speeds == {100, 200}

\* the time between two animation frames, ms
FrameDeltas == {100, 200}

\* the first commit of App: isAnimating false, the Terminal mounted, its effects run
Init ==
    /\ parsedLines = <<>>
    /\ targetFrameCount = 40
    /\ frames = <<>>
    /\ exportStep = "idle"
    /\ filteredLines = <<>>
    /\ ScaleIdle
    /\ GifIdle
    /\ typingSpeed \in Speeds
    /\ outputMode \in OutputModes
    /\ inputText \in Scripts
    /\ isAnimating = FALSE
    /\ playTimers = 0
    /\ displayedLines = <<>>
    /\ isComplete = FALSE
    /\ currentLineIndex = 0
    /\ animationRef = 0
    /\ cleanupRegistered = FALSE
    /\ closures = <<>>
    /\ currentRun = 0
    /\ rafQueue = {}
    /\ updateQueue = MainEffect({}, 0, <<>>, FALSE, lineTextsOf(inputText),
                                parsedLineInfoOf(inputText), typingSpeed,
                                outputMode).queue
    /\ phase = "idle"
    /\ notifying = FALSE
    /\ clocks = NoClocks

\* Terminal: useEffect(() => { if (isComplete && onAnimationComplete) ... },
\* [isComplete, onAnimationComplete]), run after a render in which a dependency
\* changed: whether it calls onAnimationComplete (App always passes one)
NotifyEffect(complete) == complete

\* the tick timestamps of the reveals, after a tick d ms after the previous
\* frame took closure c to res: a character was revealed, a line was marked
\* complete, an entry was shown for the first time
TickClocks(clk, c, res, d) ==
    LET Since(t) == IF t = NoTime THEN NoTime ELSE Min(t + d, MaxClock)
        revealed == res.c.charIdx > c.charIdx
        completed == \E k \in 1..Len(res.sets) : res.sets[k].op = "lineComplete"
        first == c.charIdx = 0 /\ (revealed \/ completed)
    IN  [sinceReveal |-> IF revealed THEN 0 ELSE Since(clk.sinceReveal),
         sinceComplete |-> IF completed THEN 0 ELSE Since(clk.sinceComplete),
         revealGap |-> IF revealed THEN Since(clk.sinceReveal) ELSE clk.revealGap,
         lineGap |-> IF first THEN Since(clk.sinceComplete) ELSE clk.lineGap]

\* a requestAnimationFrame callback runs, d ms after the previous frame
Tick(cb, d) ==
    /\ Len(updateQueue) <= MaxQueue
    /\ LET r == cb.run
           cls == [x \in DOMAIN closures |-> AdvanceTime(closures[x], d)]
           res == animate(cls[r], r)
           raf == rafQueue \ {cb}
           h == FreshHandle(raf, {animationRef, cb.handle})
       IN  /\ rafQueue' = IF res.again THEN raf \cup {[handle |-> h, run |-> r]}
                          ELSE raf
           /\ animationRef' = IF res.again THEN h ELSE animationRef
           /\ closures' = [cls EXCEPT ![r] = res.c]
           /\ updateQueue' = updateQueue \o res.sets
           /\ phase' = IF res.done /\ r = currentRun THEN "completed" ELSE phase
           /\ clocks' = TickClocks(clocks, cls[r], res, d)
    /\ notifying' = FALSE
    /\ UNCHANGED <<genVars, configVars, appVars, displayedLines, isComplete,
                   currentLineIndex, cleanupRegistered, currentRun>>

\* React renders the Terminal with the queued updates; no prop has changed
Render ==
    /\ updateQueue # <<>>
    /\ LET st == Rendered
       IN  /\ displayedLines' = st.displayedLines
           /\ isComplete' = st.isComplete
           /\ currentLineIndex' = st.currentLineIndex
           /\ notifying' = (st.isComplete # isComplete /\ NotifyEffect(st.isComplete))
    /\ updateQueue' = <<>>
    /\ UNCHANGED <<genVars, configVars, appVars, animationRef, cleanupRegistered,
                   closures, currentRun, rafQueue, phase, clocks>>

\* reset()
Reset ==
    /\ Len(updateQueue) <= MaxQueue
    /\ rafQueue' = CancelCurrent(rafQueue, animationRef)
    /\ animationRef' = 0
    /\ updateQueue' = updateQueue \o resetUpdates
    /\ phase' = "reset"
    /\ notifying' = FALSE
    /\ UNCHANGED <<genVars, configVars, appVars, displayedLines, isComplete,
                   currentLineIndex, cleanupRegistered, closures, currentRun, clocks>>

\* skipToEnd()
SkipToEnd ==
    /\ Len(updateQueue) <= MaxQueue
    /\ rafQueue' = CancelCurrent(rafQueue, animationRef)
    /\ animationRef' = 0
    /\ updateQueue' = updateQueue \o skipToEndUpdates(lineTexts)
    /\ phase' = "skipped"
    /\ notifying' = FALSE
    /\ UNCHANGED <<genVars, configVars, appVars, displayedLines, isComplete,
                   currentLineIndex, cleanupRegistered, closures, currentRun, clocks>>

\* App renders again: the Terminal gets a new lines array and a new
\* onAnimationComplete, so the main effect and the notify effect both run again
TerminalRerender(raw, enabled, speed, mode) ==
    LET st == Rendered
        raf == IF cleanupRegistered THEN EffectCleanup(rafQueue, animationRef)
               ELSE rafQueue
        eff == MainEffect(raf, animationRef, closures, enabled, lineTextsOf(raw),
                          parsedLineInfoOf(raw), speed, mode)
    IN  /\ displayedLines' = st.displayedLines
        /\ isComplete' = st.isComplete
        /\ currentLineIndex' = st.currentLineIndex
        /\ updateQueue' = eff.queue
        /\ rafQueue' = eff.raf
        /\ animationRef' = eff.ref
        /\ closures' = eff.closures
        /\ currentRun' = eff.run
        /\ cleanupRegistered' = eff.started
        /\ phase' = IF eff.started THEN "running" ELSE "idle"
        /\ notifying' = NotifyEffect(st.isComplete)
        /\ clocks' = NoClocks

\* the Terminal's key changes: the old instance unmounts, a new one mounts
TerminalRemount(raw, enabled, speed, mode) ==
    LET raf0 == CancelCurrent(rafQueue, animationRef)
        raf == IF cleanupRegistered THEN EffectCleanup(raf0, animationRef) ELSE raf0
        eff == MainEffect(raf, 0, closures, enabled, lineTextsOf(raw),
                          parsedLineInfoOf(raw), speed, mode)
    IN  /\ displayedLines' = <<>>
        /\ isComplete' = FALSE
        /\ currentLineIndex' = 0
        /\ updateQueue' = eff.queue
        /\ rafQueue' = eff.raf
        /\ animationRef' = eff.ref
        /\ closures' = eff.closures
        /\ currentRun' = eff.run
        /\ cleanupRegistered' = eff.started
        /\ phase' = IF eff.started THEN "running" ELSE "idle"
        /\ notifying' = NotifyEffect(FALSE)
        /\ clocks' = NoClocks

\* handlePlay: isAnimating is false already (the button is disabled otherwise)
HandlePlay ==
    /\ ~isAnimating
    /\ \E i \in 1..Len(inputText) : ~IsBlank(inputText[i])
    /\ playTimers < MaxPlayTimers
    /\ playTimers' = playTimers + 1
    /\ notifying' = FALSE
    /\ UNCHANGED <<genVars, configVars, inputText, isAnimating, hookVars, phase, clocks>>

\* handlePlay's timeout: setAnimationKey(prev + 1); setIsAnimating(true)
PlayTimeout ==
    /\ playTimers > 0
    /\ playTimers' = playTimers - 1
    /\ isAnimating' = TRUE
    /\ TerminalRemount(inputText, TRUE, typingSpeed, outputMode)
    /\ UNCHANGED <<genVars, configVars, inputText>>

\* handleReset
HandleReset ==
    /\ isAnimating' = FALSE
    /\ TerminalRemount(inputText, FALSE, typingSpeed, outputMode)
    /\ UNCHANGED <<genVars, configVars, inputText, playTimers>>

\* exportAsGIF up to its first await: setIsAnimating(false); the frames it
\* generates are a local of the call
ExportAsGIF ==
    /\ isAnimating' = FALSE
    /\ TerminalRerender(inputText, FALSE, typingSpeed, outputMode)
    /\ UNCHANGED <<genVars, configVars, inputText, playTimers>>

\* updateConfig(key, value); with the values unchanged, any other state change
\* of App (theme, export progress, tab): App renders again
UpdateConfig(speed, mode) ==
    /\ typingSpeed' = speed
    /\ outputMode' = mode
    /\ TerminalRerender(inputText, isAnimating, speed, mode)
    /\ UNCHANGED <<genVars, appVars>>

\* setInputText(e.target.value)
SetInputText(raw) ==
    /\ inputText' = raw
    /\ TerminalRerender(raw, isAnimating, typingSpeed, outputMode)
    /\ UNCHANGED <<genVars, configVars, isAnimating, playTimers>>

Next ==
    \/ \E cb \in rafQueue, d \in FrameDeltas : Tick(cb, d)
    \/ Render
    \/ Reset
    \/ SkipToEnd
    \/ HandlePlay
    \/ PlayTimeout
    \/ HandleReset
    \/ ExportAsGIF
    \/ \E speed \in Speeds, mode \in OutputModes : UpdateConfig(speed, mode)
    \/ \E raw \in Scripts : SetInputText(raw)

Spec == Init /\ [][Next]_vars

----------------------------------------------------------------------------
(* What the hook returns and the Terminal paints from the committed state *)

\* lines.reduce((sum, line) => sum + line.length, 0)
RECURSIVE totalCharsOf(_)
totalCharsOf(lns) ==
    IF lns = <<>> THEN 0 ELSE Len(Head(lns)) + totalCharsOf(Tail(lns))

\* displayedLines.reduce((sum, line) => sum + (line?.text?.length || 0), 0)
RECURSIVE typedCharsOfDisplay(_)
typedCharsOfDisplay(dl) ==
    IF dl = <<>> THEN 0
    ELSE (IF Head(dl) = UndefinedLine THEN 0 ELSE Len(Head(dl).text))
         + typedCharsOfDisplay(Tail(dl))

\* progress = totalChars > 0 ? typedChars / totalChars : 0, as a fraction
progress ==
    IF totalCharsOf(lineTexts) > 0
    THEN [num |-> typedCharsOfDisplay(displayedLines), den |-> totalCharsOf(lineTexts)]
    ELSE [num |-> 0, den |-> 1]

\* Terminal: showCursor of a displayed line
showCursor(showComplete, forcedDisplayState, line, index, effectiveCurrentLineIndex) ==
    /\ ~showComplete
    /\ ~forcedDisplayState
    /\ ~line.complete
    /\ index = effectiveCurrentLineIndex

\* the lines (0-based) the preview Terminal draws an in-line cursor on
InLineCursors ==
    {index \in 0..(Len(displayedLines) - 1) :
        showCursor(FALSE, FALSE, displayedLines[index + 1], index, currentLineIndex)}

\* Terminal: effectiveIsComplete && effectiveDisplayedLines.length > 0, the
\* cursor on a new line after the last one
restingCursor(effectiveIsComplete, effectiveDisplayedLines) ==
    effectiveIsComplete /\ Len(effectiveDisplayedLines) > 0

\* forcedDisplayState = null
NoForced == [given |-> FALSE, lines |-> <<>>, complete |-> FALSE, currentLineIndex |-> 0]

\* forcedDisplayState objects: a half-typed line, a complete line, no line
ForcedStates ==
    {[given |-> TRUE, lines |-> <<DisplayLine(<<"x">>, FALSE)>>, complete |-> FALSE,
      currentLineIndex |-> 0],
     [given |-> TRUE, lines |-> <<DisplayLine(<<"x">>, TRUE)>>, complete |-> TRUE,
      currentLineIndex |-> 1],
     [given |-> TRUE, lines |-> <<>>, complete |-> FALSE, currentLineIndex |-> 0]}

\* the enabled argument of useMultiLineTyping
hookEnabled(animating, showComplete, forcedDisplayState) ==
    animating /\ ~showComplete /\ ~forcedDisplayState.given

\* effectiveDisplay asking for showComplete first
effectiveDisplayCompleteFirst(showComplete, forcedDisplayState) ==
    IF showComplete
    THEN [lines |-> [i \in 1..Len(lineTexts) |-> DisplayLine(lineTexts[i], TRUE)],
          isComplete |-> TRUE,
          currentLineIndex |-> Len(lineTexts)]
    ELSE IF forcedDisplayState.given
    THEN [lines |-> forcedDisplayState.lines,
          isComplete |-> forcedDisplayState.complete,
          currentLineIndex |-> forcedDisplayState.currentLineIndex]
    ELSE [lines |-> displayedLines, isComplete |-> isComplete,
          currentLineIndex |-> currentLineIndex]

\* effectiveDisplayedLines, effectiveIsComplete, effectiveCurrentLineIndex
effectiveDisplay(showComplete, forcedDisplayState) ==
    IF forcedDisplayState.given
    THEN [lines |-> forcedDisplayState.lines,
          isComplete |-> forcedDisplayState.complete,
          currentLineIndex |-> forcedDisplayState.currentLineIndex]
    ELSE IF showComplete
    THEN [lines |-> [i \in 1..Len(lineTexts) |-> DisplayLine(lineTexts[i], TRUE)],
          isComplete |-> TRUE,
          currentLineIndex |-> Len(lineTexts)]
    ELSE [lines |-> displayedLines, isComplete |-> isComplete,
          currentLineIndex |-> currentLineIndex]

----------------------------------------------------------------------------
(* One run of the driver: Play, then ticks and renders, nothing else *)

TickAny == \E cb \in rafQueue, d \in FrameDeltas : Tick(cb, d)

NextRun ==
    \/ HandlePlay
    \/ PlayTimeout
    \/ TickAny
    \/ Render

\* frames keep coming and React renders what is queued
SpecRun == Init /\ [][NextRun]_vars /\ WF_vars(TickAny) /\ WF_vars(Render)

----------------------------------------------------------------------------
(* generateAnimationFrames: auto-scaling to fixed target dimensions.
   Lengths are in fifths of a canvas pixel, so that a line height in tenths
   and a character advance of 0.6 em keep every length an integer. *)

\* const scale = 2
CanvasScale == 2

\* a length of n canvas pixels
Px(n) == 5 * n

\* measureText(text).width of a monospace font: 0.6 em a character, which
\* is 3 fifths of a pixel for each pixel of the font size
measureText(chars, fontSize) == chars * (fontSize * CanvasScale) * 3

\* promptParts.length of config.promptText.split('\n'), 0 for no prompt
promptPartsLength(lns) == Len(lns.prompt)

\* the characters of lastPromptPart
lastPromptPart(lns) == IF lns.prompt = <<>> THEN 0 ELSE lns.prompt[Len(lns.prompt)]

\* calculateCanvasDimensions(config, theme, lines, scale)
calculateCanvasDimensions(config, lns) ==
    LET padding == Px(config.padding * CanvasScale)
        titleBarHeight == IF config.showTitle THEN Px(40 * CanvasScale) ELSE 0
        withPrompt == lns.showPrompt /\ lns.prompt # <<>>
        maxLineWidth ==
            IF lns.lines = 0 THEN 0
            ELSE (IF withPrompt THEN measureText(lastPromptPart(lns), config.fontSize)
                  ELSE 0)
                 + measureText(lns.chars, config.fontSize)
        contentWidth == maxLineWidth + (padding * 2) + (Px(40 * CanvasScale))
        totalLines ==
            lns.lines * (IF withPrompt /\ promptPartsLength(lns) > 1
                         THEN promptPartsLength(lns) ELSE 1)
            + (IF promptPartsLength(lns) > 1 THEN promptPartsLength(lns) ELSE 1)
        \* totalLines * fontSize * lineHeight: config.lineHeight is in tenths,
        \* and scale tenths of a pixel are a fifth
        textHeight == totalLines * config.fontSize * config.lineHeight
        contentHeight == textHeight + (padding * 2) + (Px(20 * CanvasScale))
    IN  [width |-> Max(Px(400 * CanvasScale), contentWidth),
         height |-> titleBarHeight + Max(Px(100 * CanvasScale), contentHeight)]

\* targetWidth && targetHeight
useTargetDimensions == target.width # 0 /\ target.height # 0

\* targetWidth * scale, targetHeight * scale
canvasSize ==
    [width |-> Px(target.width * CanvasScale),
     height |-> Px(target.height * CanvasScale)]

\* Math.min(widthRatio, heightRatio), as a fraction
fitRatio ==
    LET terminalDims == calculateCanvasDimensions(sizeConfig, content)
        widthRatio == [num |-> canvasSize.width, den |-> terminalDims.width]
        heightRatio == [num |-> canvasSize.height, den |-> terminalDims.height]
    IN  IF widthRatio.num * heightRatio.den <= heightRatio.num * widthRatio.den
        THEN widthRatio ELSE heightRatio

\* ScaleDown leaving the value as configured
ScaleDownNot(value, ratio) == Max(8, value)

\* Math.max(8, Math.floor(value * fitRatio))
ScaleDown(value, ratio) == Max(8, (value * ratio.num) \div ratio.den)

\* the font sizes of the slider, the paddings and the line height of a theme
SizeConfigs ==
    [fontSize : {12, 14, 24}, padding : {8, 20}, lineHeight : {15},
     showTitle : BOOLEAN]

\* config.promptText by the characters of its lines: '$ ', and a prompt of
\* two lines with a first line of 60 characters
Prompts == {<<2>>, <<60, 2>>}

\* scripts by the number of their entries, the characters of the longest and
\* whether the entries are commands
Contents ==
    [lines : {1, 40, 60}, chars : {10, 150, 400}, showPrompt : BOOLEAN, prompt : Prompts]

\* resolutionPresets: auto, linkedin, instagram
Targets ==
    {[width |-> 0, height |-> 0], [width |-> 1200, height |-> 627],
     [width |-> 1080, height |-> 1080]}

InitScale ==
    /\ sizeConfig \in SizeConfigs
    /\ content \in Contents
    /\ target \in Targets
    /\ adjustedConfig = [fontSize |-> sizeConfig.fontSize, padding |-> sizeConfig.padding]
    /\ GifIdle
    /\ inputText = <<>>
    /\ filteredLines = <<>>
    /\ exportStep = "idle"
    /\ parsedLines = <<>>
    /\ targetFrameCount = 40
    /\ frames = <<>>
    /\ typingSpeed = 50
    /\ outputMode = "typing"
    /\ isAnimating = FALSE
    /\ playTimers = 0
    /\ displayedLines = <<>>
    /\ isComplete = FALSE
    /\ currentLineIndex = 0
    /\ animationRef = 0
    /\ cleanupRegistered = FALSE
    /\ closures = <<>>
    /\ currentRun = 0
    /\ rafQueue = {}
    /\ updateQueue = <<>>
    /\ phase = "idle"
    /\ notifying = FALSE
    /\ clocks = NoClocks

\* let adjustedConfig = { ...config }; if (useTargetDimensions) { ... }
AutoScale ==
    /\ exportStep = "idle"
    /\ adjustedConfig' =
        IF useTargetDimensions /\ fitRatio.num < fitRatio.den
        THEN [fontSize |-> ScaleDown(sizeConfig.fontSize, fitRatio),
              padding |-> ScaleDown(sizeConfig.padding, fitRatio)]
        ELSE [fontSize |-> sizeConfig.fontSize, padding |-> sizeConfig.padding]
    /\ exportStep' = "scaled"
    /\ UNCHANGED <<sizeConfig, content, target, parsedLines, targetFrameCount,
                   frames, filteredLines, gifVars, configVars, appVars, hookVars,
                   historyVars>>

\* adjustedConfig: config with the adjusted font size and padding
AdjustedSizeConfig ==
    [sizeConfig EXCEPT !.fontSize = adjustedConfig.fontSize,
                       !.padding = adjustedConfig.padding]

\* finalCanvasWidth, finalCanvasHeight
finalCanvasSize ==
    IF useTargetDimensions THEN canvasSize
    ELSE calculateCanvasDimensions(AdjustedSizeConfig, content)

\* createTerminalCanvas sizing every canvas for the lines it shows
createTerminalCanvasOwn(config, shown, fixed) == calculateCanvasDimensions(config, shown)

\* createTerminalCanvas(config, theme, displayState, {scale, fixedWidth,
\* fixedHeight}): the size of the canvas
createTerminalCanvas(config, shown, fixed) ==
    IF fixed.width # 0 /\ fixed.height # 0 THEN fixed
    ELSE calculateCanvasDimensions(config, shown)

\* what the warm-up frame, the first typing frame and the final frame show
ShownContents ==
    << [content EXCEPT !.lines = 0, !.chars = 0],
       [content EXCEPT !.lines = 1, !.chars = 1],
       content >>

\* createFrame for these three frames: what each shows and its canvas
SizeFrames ==
    /\ exportStep = "scaled"
    /\ frames' = [k \in 1..Len(ShownContents) |->
                    [shown |-> ShownContents[k],
                     canvas |-> createTerminalCanvas(AdjustedSizeConfig, ShownContents[k],
                                                     finalCanvasSize)]]
    /\ exportStep' = "sized"
    /\ UNCHANGED <<scaleVars, parsedLines, targetFrameCount, filteredLines, gifVars,
                   configVars, appVars, hookVars, historyVars>>

\* drawTerminal: the widths of the text rows it draws for the final frame,
\* each from x = padding: the lines of the script, the leading parts of the
\* prompt on rows of their own, the prompt of the new line after the last
paintedRowWidths(config, lns) ==
    LET promptRows == {measureText(lns.prompt[p], config.fontSize) :
                          p \in 1..promptPartsLength(lns)}
        textRow == (IF lns.showPrompt
                    THEN measureText(lastPromptPart(lns), config.fontSize) ELSE 0)
                   + measureText(lns.chars, config.fontSize)
    IN  promptRows \cup (IF lns.lines > 0 THEN {textRow} ELSE {})

NextScale == AutoScale \/ SizeFrames

SpecScale == InitScale /\ [][NextScale]_vars

----------------------------------------------------------------------------
(* createGIF: the encoder loop and its yields *)

\* frames of a list handed to createGIF directly
MaxGifFrames == 7

\* frame delays in ms
GifDelays == {14, 350}

\* the lists of frames handed to createGIF; a canvas is named by its position
GifInputs ==
    {[i \in 1..n |-> [canvas |-> i, delay |-> D[i]]] :
        n \in 0..MaxGifFrames, D \in [1..MaxGifFrames -> GifDelays]}

\* Math.round(frame.delay / 10), then Math.max(2, delay)
GifDelay(ms) == Max(2, (ms + 5) \div 10)

\* the loop condition of createGIF, negated, one frame short
LoopDoneEarly(i, n) == i >= n - 1

\* the loop condition of createGIF, negated: i < frames.length
LoopDone(i, n) == i >= n

\* the index whose iteration ends the stretch of the loop that starts at
\* index i: the first that yields (i % 5 === 0), or the last index
StretchEnd(i, n) == Min(n - 1, i + ((5 - (i % 5)) % 5))

\* gif.writeFrame for the frames at indices i..j (0-based)
WriteFrames(written, i, j) ==
    written \o [k \in 1..(j - i + 1) |->
                  [canvas |-> gifInput[i + k].canvas,
                   delay |-> GifDelay(gifInput[i + k].delay)]]

\* onProgress((i + 1) / frames.length) for the indices i..j
ReportProgress(reported, i, j) ==
    reported \o [k \in 1..(j - i + 1) |-> [num |-> i + k, den |-> Len(gifInput)]]

\* the loop from index i up to its next await, or through gif.finish()
RunLoop(i) ==
    IF LoopDone(i, Len(gifInput))
    THEN /\ gifPc' = "done"
         /\ gifI' = i
         /\ UNCHANGED <<gifWritten, gifProgress>>
    ELSE LET j == StretchEnd(i, Len(gifInput))
         IN  /\ gifWritten' = WriteFrames(gifWritten, i, j)
             /\ gifProgress' = ReportProgress(gifProgress, i, j)
             /\ gifI' = j
             /\ gifPc' = IF j % 5 = 0 THEN "yield" ELSE "done"

InitGif ==
    /\ gifInput \in GifInputs
    /\ gifWritten = <<>>
    /\ gifI = 0
    /\ gifPc = "idle"
    /\ gifProgress = <<>>
    /\ inputText = <<>>
    /\ filteredLines = <<>>
    /\ exportStep = "idle"
    /\ parsedLines = <<>>
    /\ targetFrameCount = 40
    /\ frames = <<>>
    /\ ScaleIdle
    /\ typingSpeed = 50
    /\ outputMode = "typing"
    /\ isAnimating = FALSE
    /\ playTimers = 0
    /\ displayedLines = <<>>
    /\ isComplete = FALSE
    /\ currentLineIndex = 0
    /\ animationRef = 0
    /\ cleanupRegistered = FALSE
    /\ closures = <<>>
    /\ currentRun = 0
    /\ rafQueue = {}
    /\ updateQueue = <<>>
    /\ phase = "idle"
    /\ notifying = FALSE
    /\ clocks = NoClocks

\* createGIF(frames, options) up to its first await
CreateGIF ==
    /\ gifPc = "idle"
    /\ IF Len(gifInput) = 0
       THEN /\ gifPc' = "error"
            /\ UNCHANGED <<gifWritten, gifI, gifProgress>>
       ELSE RunLoop(0)
    /\ UNCHANGED <<gifInput, parsedLines, targetFrameCount, frames, exportStep,
                   filteredLines, scaleVars, configVars, appVars, hookVars,
                   historyVars>>

\* the continuation of the await: i++, then the loop goes on
GifResume ==
    /\ gifPc = "yield"
    /\ RunLoop(gifI + 1)
    /\ UNCHANGED <<gifInput, parsedLines, targetFrameCount, frames, exportStep,
                   filteredLines, scaleVars, configVars, appVars, hookVars,
                   historyVars>>

\* another task of the page runs while createGIF awaits
GifOtherTask ==
    /\ gifPc = "yield"
    /\ \E speed \in Speeds, mode \in OutputModes : UpdateConfig(speed, mode)

NextGif == CreateGIF \/ GifResume \/ GifOtherTask

SpecGif == InitGif /\ [][NextGif]_vars

----------------------------------------------------------------------------
(* Properties of the live driver, under Spec *)

\* every line of the script, fully revealed
FullLines == [i \in 1..Len(lineTexts) |-> DisplayLine(lineTexts[i], TRUE)]

\* the last frame the generator returns for the script of the preview, with the
\* parameters exportAsGIF passes
GeneratorLastFrame ==
    LET fs == generateAnimationFrames(parsedLineInfo, outputMode, 40, typingSpeed)
    IN  fs[Len(fs)]

\* the driver ran to its end undisturbed and React has rendered every update
NaturallyComplete == phase = "completed" /\ updateQueue = <<>>

\* C1: once the driver has run a non-empty script to natural completion, its
\* state equals the display state of the generator's last frame: the same text
\* on every line, every line complete, and the same cursor position, one past
\* the last line.
C1_ConvergenceEquivalence ==
    NaturallyComplete =>
        LET f == GeneratorLastFrame
        IN  /\ isComplete
            /\ Len(displayedLines) = Len(f.lines)
            /\ \A i \in 1..Len(f.lines) :
                   /\ displayedLines[i].text = f.lines[i].text
                   /\ displayedLines[i].complete
            /\ currentLineIndex = f.cursorLineIndex
            /\ currentLineIndex = Len(lineTexts)

\* C2: for every entry of the script and either outputMode, the driver types
\* the entry (shouldTypeLine) exactly when the generator does not treat it as
\* instant (shouldBeInstant).
C2_SameClassification ==
    \A i \in 1..Len(parsedLineInfo) :
        shouldTypeLine(outputMode, parsedLineInfo, i - 1)
            = ~shouldBeInstant(parsedLineInfo[i], outputMode)

\* C3: in every reachable state, isComplete implies that displayedLines holds
\* one entry per script line, each with the line's full text and complete.
C3_CompleteMeansAllRevealed ==
    isComplete => displayedLines = FullLines

\* C4: onAnimationComplete is called only in a step in which isComplete turns
\* from false to true at the end of an animation run (or of its skipToEnd):
\* never on a later render while isComplete stays true, never when no animation
\* has run.
C4_NotifiesOncePerRun ==
    [][notifying' =>
          /\ ~isComplete
          /\ isComplete'
          /\ phase' \in {"completed", "skipped"}]_vars

\* C5: after reset() the driver shows the empty display state and animates
\* again from entry 0: once reset's updates are rendered the state is empty,
\* and, the driver being enabled on a non-empty script, a frame callback is
\* scheduled (nothing else in the hook can carry the animation on to
\* completion).
C5_ResetRestarts ==
    (phase = "reset" /\ updateQueue = <<>>) =>
        /\ displayedLines = <<>>
        /\ currentLineIndex = 0
        /\ ~isComplete
        /\ (isAnimating /\ lineTexts # <<>>) => rafQueue # {}

\* C6: at most one frame callback is scheduled, animationRef holds its handle,
\* it belongs to the run the main effect started last, and that run has not
\* been stopped (by reset, skipToEnd, a re-run of the effect or an unmount).
C6_NoCallbackOfAStoppedRun ==
    /\ Cardinality(rafQueue) <= 1
    /\ \A cb \in rafQueue :
           /\ cb.handle = animationRef
           /\ cb.run = currentRun
           /\ phase = "running"

\* a run was stopped by reset() after it had typed a character
C6_Witness ==
    /\ phase = "reset"
    /\ currentRun \in DOMAIN closures
    /\ closures[currentRun].charIdx = 1
    /\ rafQueue = {}

\* C7: after skipToEnd(), in whatever state it was called, the state React
\* renders next (and keeps) is the fully revealed one: every line with its
\* full text and complete, currentLineIndex = number of lines, isComplete; no
\* frame callback is left to change it.
C7_SkipToEndIsFinal ==
    phase = "skipped" =>
        /\ rafQueue = {}
        /\ Rendered = [displayedLines |-> FullLines, isComplete |-> TRUE,
                       currentLineIndex |-> Len(lineTexts)]

\* skipToEnd() interrupted a run in the middle of a line and was rendered
C7_Witness ==
    /\ phase = "skipped"
    /\ updateQueue = <<>>
    /\ currentRun \in DOMAIN closures
    /\ closures[currentRun].charIdx = 1
    /\ Len(closures[currentRun].lines[closures[currentRun].lineIdx + 1]) > 1
    /\ isComplete

----------------------------------------------------------------------------
(* Properties of generateAnimationFrames, under SpecGen *)

NumEntries == Len(parsedLines)

\* entry i (0-based) is instant for the generator
InstantAt(i) == shouldBeInstant(parsedLines[i + 1], outputMode)

\* entries a..b are a maximal run of consecutive instant entries
MaximalInstantRun(a, b) ==
    /\ 0 <= a /\ a <= b /\ b < NumEntries
    /\ \A i \in a..b : InstantAt(i)
    /\ a = 0 \/ ~InstantAt(a - 1)
    /\ b = NumEntries - 1 \/ ~InstantAt(b + 1)

\* frame k reveals text on the line its cursor is on (a typing or batch frame;
\* warm-up, inter-line and final frames have the cursor past the lines shown)
IsRevealFrame(k) == frames[k].cursorLineIndex < Len(frames[k].lines)

\* the frames that reveal something of entries a..b
RevealFramesOf(a, b) ==
    {k \in 1..Len(frames) : IsRevealFrame(k) /\ frames[k].cursorLineIndex \in a..b}

\* C8: a maximal run of N >= 1 consecutive instant entries is revealed by
\* exactly one frame: the frame before it shows none of the run, the frame
\* shows all N entries with their full text, and its cursor is on the last
\* entry of the run.
C8_InstantRunIsOneFrame ==
    frames # <<>> =>
        \A a \in 0..(NumEntries - 1), b \in 0..(NumEntries - 1) :
            MaximalInstantRun(a, b) =>
                /\ Cardinality(RevealFramesOf(a, b)) = 1
                /\ \A k \in RevealFramesOf(a, b) :
                       /\ k > 1
                       /\ Len(frames[k - 1].lines) = a
                       /\ Len(frames[k].lines) = b + 1
                       /\ frames[k].cursorLineIndex = b
                       /\ \A i \in a..b :
                              frames[k].lines[i + 1].text = parsedLines[i + 1].text

\* the frames were generated for a list with a run of two or more instant entries
C8_Witness ==
    /\ frames # <<>>
    /\ \E a \in 0..(NumEntries - 1), b \in 0..(NumEntries - 1) :
           MaximalInstantRun(a, b) /\ b > a

\* entry i is a typed Command with text, directly followed by an instant run
TypedCommandBeforeRun(i, b) ==
    /\ 0 <= i /\ i + 1 < NumEntries
    /\ parsedLines[i + 1].showPrompt
    /\ ~InstantAt(i)
    /\ parsedLines[i + 1].text # <<>>
    /\ MaximalInstantRun(i + 1, b)

\* the last typing frame of entry i
LastTypingFrame(i) ==
    CHOOSE k \in RevealFramesOf(i, i) : \A j \in RevealFramesOf(i, i) : j <= k

\* the batch frame of the run ending at b
BatchFrame(a, b) == CHOOSE k \in RevealFramesOf(a, b) : TRUE

\* C9 as claimed: the batch frame of an instant run that directly follows a
\* typed Command is the frame right after the command's last typing frame.
C9_BatchRightAfterTyping ==
    frames # <<>> =>
        \A i \in 0..(NumEntries - 1), b \in 0..(NumEntries - 1) :
            TypedCommandBeforeRun(i, b) =>
                BatchFrame(i + 1, b) = LastTypingFrame(i) + 1

\* C9, amended: exactly one frame lies between the command's last typing frame
\* and the batch frame: the inter-line frame, with the lines of the last typing
\* frame, the cursor on the first entry of the run and a hold of 150 ms.
C9_BatchAfterInterLineFrame ==
    frames # <<>> =>
        \A i \in 0..(NumEntries - 1), b \in 0..(NumEntries - 1) :
            TypedCommandBeforeRun(i, b) =>
                LET t == LastTypingFrame(i)
                IN  /\ BatchFrame(i + 1, b) = t + 2
                    /\ frames[t + 1] = createFrame(frames[t].lines, i + 1, 150)

\* a typed command with text is followed by a run of two instant entries
C9_Witness ==
    /\ frames # <<>>
    /\ \E i \in 0..(NumEntries - 1), b \in 0..(NumEntries - 1) :
           TypedCommandBeforeRun(i, b) /\ b > i + 1

\* C10: the last frame shows exactly one line per entry, in entry order, with
\* the entry's full text, whatever targetFrameCount and typingSpeed are.
C10_LastFrameHasEveryFullText ==
    frames # <<>> =>
        LET f == frames[Len(frames)]
        IN  /\ Len(f.lines) = NumEntries
            /\ \A i \in 1..NumEntries : f.lines[i].text = parsedLines[i].text

\* the list mixes a typed entry of several characters, typed more than one
\* character per frame, with an instant entry
C10_Witness ==
    /\ frames # <<>>
    /\ charsPerFrameOf(parsedLines, outputMode, targetFrameCount) > 1
    /\ \E i \in 0..(NumEntries - 1) : ~InstantAt(i) /\ Len(parsedLines[i + 1].text) > 1
    /\ \E i \in 0..(NumEntries - 1) : InstantAt(i) /\ parsedLines[i + 1].text # <<>>

\* t is a prefix of full
IsPrefix(t, full) == Len(t) <= Len(full) /\ t = SubSeq(full, 1, Len(t))

\* the length of the text frame k shows for entry i (0-based); 0 while absent
LineLen(k, i) ==
    IF i < Len(frames[k].lines) THEN Len(frames[k].lines[i + 1].text) ELSE 0

\* C11: in every frame the text shown for an entry is a prefix of the entry's
\* full text (so never longer than it), and from one frame to the next no
\* entry's shown text gets shorter and no line disappears.
C11_MonotonicReveal ==
    frames # <<>> =>
        \A k \in 1..Len(frames) :
            /\ Len(frames[k].lines) <= NumEntries
            /\ \A i \in 0..(Len(frames[k].lines) - 1) :
                   IsPrefix(frames[k].lines[i + 1].text, parsedLines[i + 1].text)
            /\ k > 1 =>
                   /\ Len(frames[k - 1].lines) <= Len(frames[k].lines)
                   /\ \A i \in 0..(NumEntries - 1) : LineLen(k - 1, i) <= LineLen(k, i)

\* an entry is shown with a proper non-empty prefix in one frame and with more
\* text in a later one
C11_Witness ==
    /\ frames # <<>>
    /\ \E i \in 0..(NumEntries - 1), k \in 1..Len(frames), m \in 1..Len(frames) :
           /\ k < m
           /\ 0 < LineLen(k, i)
           /\ LineLen(k, i) < LineLen(m, i)

\* C12: for an empty entry list the generator returns the warm-up frame and
\* nothing else.
C12_EmptyListOneFrame ==
    (frames # <<>> /\ parsedLines = <<>>) => frames = <<createFrame(<<>>, 0, 500)>>

----------------------------------------------------------------------------
(* Properties of parseLines, under SpecParse *)

\* the line holds '!!' and, around it, nothing but whitespace
IsMarkerLine(L) ==
    \E i \in 1..(Len(L) - 1) :
        /\ L[i] = "!" /\ L[i + 1] = "!"
        /\ \A j \in (1..Len(L)) \ {i, i + 1} : L[j] = " "

\* the positions (1-based) of the input lines that are no marker, in order
NonMarkerIdx ==
    LET F[i \in 0..Len(inputText)] ==
            IF i = 0 THEN <<>>
            ELSE IF IsMarkerLine(inputText[i]) THEN F[i - 1] ELSE Append(F[i - 1], i)
    IN  F[Len(inputText)]

\* the input line the j-th entry stands for
SourceLine(j) == inputText[NonMarkerIdx[j]]

\* the number of marker lines before the line the j-th entry stands for
MarkersBefore(j) ==
    Cardinality({i \in 1..(NonMarkerIdx[j] - 1) : IsMarkerLine(inputText[i])})

IsSuffix(t, L) == Len(t) <= Len(L) /\ t = SubSeq(L, Len(L) - Len(t) + 1, Len(L))

\* one entry per non-marker line, in input order: the j-th entry carries
\* (the tail of) the j-th non-marker line
OneEntryPerNonMarkerLine ==
    /\ Len(parsedLines) = Len(NonMarkerIdx)
    /\ \A j \in 1..Len(parsedLines) : IsSuffix(parsedLines[j].text, SourceLine(j))

\* C13 as claimed: one entry, in input order, per non-marker line, none for a
\* marker line, and no entry displays the marker text.
C13_MarkerTextNeverDisplayed ==
    exportStep = "parsed" =>
        /\ OneEntryPerNonMarkerLine
        /\ \A j \in 1..Len(parsedLines) : ~IsMarkerLine(parsedLines[j].text)

\* C13, amended: one entry, in input order, per non-marker line and none for a
\* marker line; no Output entry displays the marker text, and an entry whose
\* text is the marker is a Command whose line reads '> !!'.
C13_OneEntryPerNonMarkerLine ==
    exportStep = "parsed" =>
        /\ OneEntryPerNonMarkerLine
        /\ \A j \in 1..Len(parsedLines) :
               IsMarkerLine(parsedLines[j].text) =>
                   /\ parsedLines[j].showPrompt
                   /\ ~IsMarkerLine(SourceLine(j))

\* the input mixes marker lines with other lines and was parsed
C13_Witness ==
    /\ exportStep = "parsed"
    /\ Len(parsedLines) = 2
    /\ Len(inputText) = 3
    /\ \E j \in 1..Len(parsedLines) : IsMarkerLine(parsedLines[j].text)

\* the first character of L that is no whitespace is '>'
IsCommandLine(L) ==
    \E k \in 1..Len(L) : L[k] = ">" /\ \A j \in 1..(k - 1) : L[j] = " "

\* t is L without its leading whitespace, the '>' and the whitespace after it
StripsCommandMarker(L, t) ==
    \E k \in 1..Len(L), m \in 0..Len(L) :
        /\ k + m <= Len(L)
        /\ L[k] = ">"
        /\ \A j \in 1..(k - 1) : L[j] = " "
        /\ \A j \in (k + 1)..(k + m) : L[j] = " "
        /\ k + m = Len(L) \/ L[k + m + 1] # " "
        /\ t = SubSeq(L, k + m + 1, Len(L))

\* C14: an entry is a Command exactly when its line, leading whitespace
\* stripped, starts with '>'; the Command's text is the line without the '>'
\* and the whitespace around it on the left; showPrompt holds exactly for the
\* Commands.
C14_CommandEntries ==
    exportStep = "parsed" =>
        /\ Len(parsedLines) = Len(NonMarkerIdx)
        /\ \A j \in 1..Len(parsedLines) :
               /\ (parsedLines[j].type = "command") = IsCommandLine(SourceLine(j))
               /\ parsedLines[j].type \in {"command", "output"}
               /\ parsedLines[j].type = "command" =>
                      StripsCommandMarker(SourceLine(j), parsedLines[j].text)
               /\ parsedLines[j].showPrompt = (parsedLines[j].type = "command")

\* an indented command with whitespace after the '>' was parsed, next to an
\* output line that holds a '>' further in
C14_Witness ==
    /\ exportStep = "parsed"
    /\ \E j \in 1..Len(parsedLines) :
           /\ parsedLines[j].type = "command"
           /\ Len(parsedLines[j].text) + 2 < Len(SourceLine(j))
    /\ \E j \in 1..Len(parsedLines) :
           /\ parsedLines[j].type = "output"
           /\ \E i \in 1..Len(parsedLines[j].text) : parsedLines[j].text[i] = ">"

\* C15: an Output entry is instant exactly when an odd number of marker lines
\* precede its line; an unterminated block so reaches the end of the input;
\* and parseLines returns for every input: the call is enabled whatever the
\* markers are.
C15_InstantIffOddMarkersBefore ==
    /\ exportStep = "idle" => ENABLED ParseLines
    /\ exportStep = "parsed" =>
           /\ Len(parsedLines) = Len(NonMarkerIdx)
           /\ \A j \in 1..Len(parsedLines) :
                  parsedLines[j].type = "output" =>
                      parsedLines[j].instant = (MarkersBefore(j) % 2 = 1)

\* an instant block was opened and never closed: one marker, an entry that is
\* not instant before it, an instant Output as the last entry
C15_Witness ==
    /\ exportStep = "parsed"
    /\ Len(inputText) = MaxLines
    /\ Cardinality({i \in 1..Len(inputText) : IsMarkerLine(inputText[i])}) = 1
    /\ parsedLines # <<>>
    /\ parsedLines[Len(parsedLines)].type = "output"
    /\ parsedLines[Len(parsedLines)].instant
    /\ ~parsedLines[1].instant

\* C16 as claimed: a Command line inside an open instant block is parsed with
\* instant = true.
C16_CommandInBlockIsInstant ==
    exportStep = "parsed" =>
        \A j \in 1..Len(parsedLines) :
            (parsedLines[j].type = "command" /\ MarkersBefore(j) % 2 = 1) =>
                parsedLines[j].instant

\* C16, amended: the instant flag depends on the kind: a Command is parsed
\* with instant = false also when its line lies inside an open instant block;
\* only Output entries take the block state.
C16_CommandNeverInstant ==
    exportStep = "parsed" =>
        \A j \in 1..Len(parsedLines) :
            parsedLines[j].instant =>
                parsedLines[j].type = "output" /\ MarkersBefore(j) % 2 = 1

\* a Command line inside an open instant block, next to an instant Output
C16_Witness ==
    /\ exportStep = "parsed"
    /\ \E j \in 1..Len(parsedLines) :
           parsedLines[j].type = "command" /\ MarkersBefore(j) % 2 = 1
    /\ \E j \in 1..Len(parsedLines) : parsedLines[j].instant

----------------------------------------------------------------------------
(* Instant entries in the driver (under Spec) and the generator (under SpecGen) *)

\* the driver animates the script the App holds
DriverOnScript ==
    /\ currentRun \in DOMAIN closures
    /\ closures[currentRun].lines = lineTexts

\* t is a prefix of full that is neither empty nor all of it
ProperPrefix(t, full) == 0 < Len(t) /\ Len(t) < Len(full) /\ IsPrefix(t, full)

\* C17: the driver never shows an Output entry whose instant flag is set with
\* a proper non-empty prefix of its text: the line is absent, empty or whole.
C17_InstantOutputNeverPartial ==
    DriverOnScript =>
        \A i \in 1..Len(parsedLineInfo) :
            (/\ parsedLineInfo[i].type = "output"
             /\ parsedLineInfo[i].instant
             /\ i <= Len(displayedLines))
                => ~ProperPrefix(displayedLines[i].text, parsedLineInfo[i].text)

\* the generator's half of C17: no frame shows an instant Output entry partly
C17_GeneratorNeverPartial ==
    frames # <<>> =>
        \A k \in 1..Len(frames), i \in 0..(NumEntries - 1) :
            (parsedLines[i + 1].type = "output" /\ parsedLines[i + 1].instant)
                => LineLen(k, i) \in {0, Len(parsedLines[i + 1].text)}

\* the first frame that shows a line for entry i
FirstShown(i) ==
    CHOOSE k \in 1..Len(frames) :
        /\ Len(frames[k].lines) > i
        /\ \A j \in 1..(k - 1) : Len(frames[j].lines) <= i

\* entry i is revealed atomically: the first frame that shows it is a batch
\* frame, held for the delay of a batch of the entries it adds, and shows the
\* entry's whole text
Atomic(i) ==
    LET k == FirstShown(i)
    IN  /\ k > 1
        /\ IsRevealFrame(k)
        /\ frames[k].lines[i + 1].text = parsedLines[i + 1].text
        /\ frames[k].delay = BatchDelay(Len(frames[k].lines) - Len(frames[k - 1].lines))

\* entry i is revealed by typing: each frame that shows more of it than the
\* frame before is a frame of this entry alone, held for the typing delay
Typed(i) ==
    /\ ~Atomic(i)
    /\ \A k \in 2..Len(frames) :
           LineLen(k - 1, i) < LineLen(k, i) =>
               /\ frames[k].cursorLineIndex = i
               /\ Len(frames[k].lines) = i + 1
               /\ frames[k].delay = Max(30, typingSpeed)

\* C18: with outputMode instant every Output entry is revealed atomically
\* whatever its instant flag, and every Command whose flag is not set is typed;
\* with outputMode typing exactly the entries whose flag is set are revealed
\* atomically, the others are typed.
C18_OutputModePolicy ==
    frames # <<>> =>
        \A i \in 0..(NumEntries - 1) :
            LET e == parsedLines[i + 1]
            IN  /\ outputMode = "instant" =>
                       /\ ~e.showPrompt => Atomic(i)
                       /\ (e.showPrompt /\ ~e.instant) => Typed(i)
                /\ outputMode = "typing" =>
                       /\ Atomic(i) = e.instant
                       /\ ~e.instant => Typed(i)

\* outputMode instant, with an unflagged Output of two characters and an
\* unflagged Command with text
C18_Witness ==
    /\ frames # <<>>
    /\ outputMode = "instant"
    /\ \E i \in 0..(NumEntries - 1) :
           /\ ~parsedLines[i + 1].showPrompt
           /\ ~parsedLines[i + 1].instant
           /\ Len(parsedLines[i + 1].text) = 2
    /\ \E i \in 0..(NumEntries - 1) :
           /\ parsedLines[i + 1].showPrompt
           /\ ~parsedLines[i + 1].instant
           /\ parsedLines[i + 1].text # <<>>

\* C19: for a non-empty entry list the first frame shows no line, with cursor
\* index 0, held 500 ms; the last frame has its cursor one past the last
\* entry and is held 2000 ms.
C19_WarmUpAndFinalFrame ==
    (frames # <<>> /\ parsedLines # <<>>) =>
        /\ Len(frames) >= 2
        /\ frames[1].lines = <<>>
        /\ frames[1].cursorLineIndex = 0
        /\ frames[1].delay = 500
        /\ frames[Len(frames)].cursorLineIndex = NumEntries
        /\ frames[Len(frames)].delay = 2000

\* frames were generated for a list of several entries
C19_Witness ==
    /\ Len(frames) > 3
    /\ NumEntries >= 2

\* an entry or a batch ends right before entry n, and entry n exists
IterationEnd(n) ==
    /\ 0 < n /\ n < NumEntries
    /\ ~(InstantAt(n - 1) /\ InstantAt(n))

\* the frames between the first and the last that reveal nothing
InterLineFrames == {k \in 2..(Len(frames) - 1) : ~IsRevealFrame(k)}

\* C20: every frame between the warm-up and the final frame that reveals
\* nothing is an inter-line frame: it follows an entry or batch that does not
\* end the script, shows the state just reached (entries 0..n-1 whole, the
\* lines of the frame before unchanged), has its cursor on the next entry n
\* and is held 150 ms; each such end has exactly one, the last entry none.
C20_OneInterLineFrame ==
    frames # <<>> =>
        /\ \A k \in InterLineFrames :
               LET n == frames[k].cursorLineIndex
               IN  /\ IterationEnd(n)
                   /\ frames[k].delay = 150
                   /\ Len(frames[k].lines) = n
                   /\ \A i \in 1..n : frames[k].lines[i].text = parsedLines[i].text
                   /\ \A i \in 1..Len(frames[k - 1].lines) :
                          frames[k].lines[i] = frames[k - 1].lines[i]
        /\ \A n \in 1..(NumEntries - 1) :
               IterationEnd(n) =>
                   Cardinality({k \in InterLineFrames :
                                    frames[k].cursorLineIndex = n}) = 1

\* a batch that does not end the script, then a typed entry with empty text,
\* then a last entry
C20_Witness ==
    /\ frames # <<>>
    /\ NumEntries = 3
    /\ InstantAt(0)
    /\ ~InstantAt(1)
    /\ parsedLines[2].text = <<>>
    /\ Cardinality(InterLineFrames) = 2

----------------------------------------------------------------------------
(* Frame emission and timing of generateAnimationFrames, under SpecGen *)

\* the characters typed before entry i (0-based): the text lengths of the
\* entries before it that are not instant
TypedBefore(i) ==
    LET F[j \in 0..i] ==
            IF j = 0 THEN 0
            ELSE F[j - 1] + (IF InstantAt(j - 1) THEN 0 ELSE Len(parsedLines[j].text))
    IN  F[i]

\* the frames that show typed entry i, cursor on it, with c characters
TypingFramesAt(i, c) ==
    {k \in 1..Len(frames) :
        /\ IsRevealFrame(k)
        /\ frames[k].cursorLineIndex = i
        /\ Len(frames[k].lines[i + 1].text) = c}

\* C21: a typed entry gets a frame after its c-th character exactly when the
\* count of typed characters so far, over all typed entries, is a multiple of
\* charsPerFrame or the character is the entry's last, and then one frame
\* only; every such frame is held max(30, typingSpeed) ms, with the cursor on
\* the entry, the last line shown.
C21_TypingFrameEmission ==
    frames # <<>> =>
        LET cpf == charsPerFrameOf(parsedLines, outputMode, targetFrameCount)
        IN  \A i \in 0..(NumEntries - 1) :
                ~InstantAt(i) =>
                    /\ \A c \in 1..Len(parsedLines[i + 1].text) :
                           Cardinality(TypingFramesAt(i, c)) =
                               IF (TypedBefore(i) + c) % cpf = 0
                                  \/ c = Len(parsedLines[i + 1].text)
                               THEN 1 ELSE 0
                    /\ \A k \in RevealFramesOf(i, i) :
                           /\ frames[k].delay = Max(30, typingSpeed)
                           /\ Len(frames[k].lines) = i + 1
                           /\ LineLen(k, i) >= 1

\* two characters per frame, and a typed entry of two characters that starts
\* at an odd count: its first character completes a pair begun on an earlier line
C21_Witness ==
    /\ frames # <<>>
    /\ charsPerFrameOf(parsedLines, outputMode, targetFrameCount) = 2
    /\ \E i \in 0..(NumEntries - 1) :
           /\ ~InstantAt(i)
           /\ Len(parsedLines[i + 1].text) = 2
           /\ TypedBefore(i) = 1

\* the sum of the text lengths of the entries that are neither Output under
\* outputMode instant nor flagged instant
TypedCharsOfScript ==
    LET counts(e) == ~(outputMode = "instant" /\ e.type = "output") /\ ~e.instant
        F[j \in 0..NumEntries] ==
            IF j = 0 THEN 0
            ELSE F[j - 1] + (IF counts(parsedLines[j]) THEN Len(parsedLines[j].text)
                             ELSE 0)
    IN  F[NumEntries]

\* C22: charsPerFrame is the least whole number, at least 1, of which
\* targetFrameCount frames cover the typed characters of the script:
\* max(1, ceil(typedChars / targetFrameCount)); 1 when nothing is typed.
C22_CharsPerFrame ==
    frames # <<>> =>
        LET cpf == charsPerFrameOf(parsedLines, outputMode, targetFrameCount)
            t == TypedCharsOfScript
        IN  /\ cpf >= 1
            /\ cpf * targetFrameCount >= t
            /\ cpf > 1 => (cpf - 1) * targetFrameCount < t
            /\ t = 0 => cpf = 1

\* three typed characters for two target frames, next to an instant entry
\* with text that does not count
C22_Witness ==
    /\ frames # <<>>
    /\ TypedCharsOfScript = 3
    /\ targetFrameCount = 2
    /\ \E i \in 0..(NumEntries - 1) : InstantAt(i) /\ parsedLines[i + 1].text # <<>>

\* the hold the claim gives for a batch of count lines
BatchHold(count) == IF count <= 4 THEN 150 + 50 * count ELSE 350

\* C23: the hold of a batch of count lines is 150 + 50*count ms up to four
\* lines and 350 ms from four lines on, never above 400 and never less than
\* for a smaller batch; every batch frame generated is held that long.
C23_BatchHold ==
    /\ \A count \in 1..MaxBatch :
           /\ BatchDelay(count) = BatchHold(count)
           /\ BatchDelay(count) <= 400
           /\ count > 1 => BatchDelay(count - 1) <= BatchDelay(count)
    /\ frames # <<>> =>
           \A a \in 0..(NumEntries - 1), b \in 0..(NumEntries - 1) :
               MaximalInstantRun(a, b) =>
                   frames[BatchFrame(a, b)].delay = BatchHold(b - a + 1)

\* a batch of more than four lines was generated, held 350 ms
C23_Witness ==
    /\ frames # <<>>
    /\ NumEntries > 4
    /\ MaximalInstantRun(0, NumEntries - 1)
    /\ frames[2].delay = 350

----------------------------------------------------------------------------
(* The preview's cursor and progress, under Spec; one run, under SpecRun *)

\* C24: the preview Terminal draws an in-line cursor on a line only if the
\* line is the current one, it is incomplete, and the animation is active.
C24_InLineCursorOnlyWhileAnimating ==
    \A index \in InLineCursors :
        /\ index = currentLineIndex
        /\ ~displayedLines[index + 1].complete
        /\ isAnimating

\* the characters of the current script that the display shows
RevealedChars ==
    LET F[i \in 0..Len(lineTexts)] ==
            IF i = 0 THEN 0
            ELSE F[i - 1] + (IF i <= Len(displayedLines)
                                /\ IsPrefix(displayedLines[i].text, lineTexts[i])
                             THEN Len(displayedLines[i].text) ELSE 0)
    IN  F[Len(lineTexts)]

\* C28: in every state the Terminal renders, progress is the number of
\* revealed characters of the current script over its total number of
\* characters, between 0 and 1, and 0 when the script has no characters.
C28_ProgressIsRevealedFraction ==
    /\ progress.num >= 0
    /\ progress.num <= progress.den
    /\ totalCharsOf(lineTexts) > 0 => progress.num = RevealedChars
    /\ totalCharsOf(lineTexts) = 0 => progress.num = 0

\* C30: once the driver runs on a non-empty script, with frames arriving and
\* no control call, it ends up complete for good: isComplete, every line
\* shown in full and complete, no frame callback scheduled.
C30_RunCompletes ==
    [](phase = "running" =>
          <>[](/\ isComplete
               /\ displayedLines = FullLines
               /\ rafQueue = {}))

----------------------------------------------------------------------------
(* The line filter of App, under SpecFilter *)

\* the line is empty or holds whitespace only
BlankLine(L) == \A j \in 1..Len(L) : L[j] = " "

\* the position (1-based) of the last line that is not blank; 0 if there is none
LastContent ==
    IF \E i \in 1..Len(inputText) : ~BlankLine(inputText[i])
    THEN CHOOSE i \in 1..Len(inputText) :
             /\ ~BlankLine(inputText[i])
             /\ \A j \in (i + 1)..Len(inputText) : BlankLine(inputText[j])
    ELSE 0

\* C27: the filter removes exactly the blank lines no content follows: what
\* it keeps is the text up to its last line that is not blank, every line of
\* it, blank or not, in its place.
C27_OnlyTrailingBlankLinesRemoved ==
    exportStep = "filtered" => filteredLines = SubSeq(inputText, 1, LastContent)

\* a text with a leading blank line, content, and a trailing blank line
C27_Witness ==
    /\ exportStep = "filtered"
    /\ Len(inputText) = 3
    /\ BlankLine(inputText[1])
    /\ ~BlankLine(inputText[2])
    /\ BlankLine(inputText[3])
    /\ Len(filteredLines) = 2

----------------------------------------------------------------------------
(* createGIF, under SpecGif *)

\* the canvases of a list of frames, in order
Canvases(fs) == [k \in 1..Len(fs) |-> fs[k].canvas]

\* a is a smaller fraction than b
FracLess(a, b) == a.num * b.den < b.num * a.den

\* C29: the frames written are always the first input frames, once each and
\* in order, whatever ran during the awaits; the encoding is finished only
\* with every frame written; the progress reported is strictly increasing
\* and its last value at the finish is 1.
C29_FramesWrittenOnceInOrder ==
    /\ IsPrefix(Canvases(gifWritten), Canvases(gifInput))
    /\ \A k \in 1..(Len(gifProgress) - 1) : FracLess(gifProgress[k], gifProgress[k + 1])
    /\ gifPc = "done" =>
        /\ Canvases(gifWritten) = Canvases(gifInput)
        /\ gifProgress # <<>>
        /\ gifProgress[Len(gifProgress)].num = gifProgress[Len(gifProgress)].den

\* an encoding of seven frames finished after two awaits, during which the
\* configuration was changed
C29_Witness ==
    /\ gifPc = "done"
    /\ Len(gifInput) = 7
    /\ Len(gifWritten) = 7
    /\ typingSpeed # 50

----------------------------------------------------------------------------
(* Auto-scaling, under SpecScale *)

\* the content is larger than the fixed target: fit ratio < 1
DoesNotFit == useTargetDimensions /\ fitRatio.num < fitRatio.den

AdjustedDims ==
    calculateCanvasDimensions(
        [fontSize |-> adjustedConfig.fontSize, padding |-> adjustedConfig.padding,
         lineHeight |-> sizeConfig.lineHeight, showTitle |-> sizeConfig.showTitle],
        content)

\* C26: after auto-scaling to fixed target dimensions the content, measured
\* again with the adjusted font size and padding, is no wider and no higher
\* than the target canvas.
C26_ScaledContentFits ==
    (exportStep = "scaled" /\ useTargetDimensions) =>
        /\ AdjustedDims.width <= canvasSize.width
        /\ AdjustedDims.height <= canvasSize.height

----------------------------------------------------------------------------
(* The ticks of one run and the updates they queue, under SpecRun *)

\* the step is a tick or a render of the run: Play is not involved
RunStep == playTimers' = playTimers /\ isAnimating' = isAnimating /\ isAnimating

\* C40: whenever React applies them, the updates of a tick write a prefix of
\* the line that was current at the tick at that line's index: every line
\* displayed is a prefix of the entry at its own index.
C40_UpdatesWriteOwnLine ==
    isAnimating =>
        \A i \in 1..Len(displayedLines) :
            /\ i <= Len(lineTexts)
            /\ IsPrefix(displayedLines[i].text, lineTexts[i])

\* the driver's position moves by one step at most: one more character of the
\* current line, or the next line after a wait
OneStep(c, d) ==
    \/ d.lineIdx = c.lineIdx /\ d.charIdx \in {c.charIdx, c.charIdx + 1}
    \/ /\ c.waitingForNextLine
       /\ d.lineIdx = c.lineIdx + 1
       /\ d.charIdx = 0

\* C31: a tick moves the driver by one step at most and queues the update of
\* one line at most; within a run the line index never decreases, no line
\* appears before the one above it, and the text shown at an index never
\* shrinks.
C31_OneStepPerTick ==
    [][RunStep =>
        /\ \A r \in DOMAIN closures \cap DOMAIN closures' :
               OneStep(closures[r], closures'[r])
        /\ Len(updateQueue') > Len(updateQueue) =>
               Cardinality({k \in (Len(updateQueue) + 1)..Len(updateQueue') :
                   updateQueue'[k].op \in {"lineTyping", "lineComplete"}}) <= 1
        /\ currentLineIndex' >= currentLineIndex
        /\ Len(displayedLines') >= Len(displayedLines)
        /\ \A i \in 1..Len(displayedLines') : displayedLines'[i] # UndefinedLine
        /\ \A i \in 1..Len(displayedLines) :
               IsPrefix(displayedLines[i].text, displayedLines'[i].text)]_vars

----------------------------------------------------------------------------
(* The driver's timing in tick timestamps, under SpecRun *)

\* C32: two successive character reveals are at least the typing speed apart,
\* the first reveal of an entry comes at least lineDelay after the entry
\* before it was marked complete, and a tick sets currentLineIndex, to the
\* next entry, only when that wait has elapsed.
C32_RevealsArePaced ==
    /\ [](clocks.revealGap # NoTime => clocks.revealGap >= typingSpeed)
    /\ [](clocks.lineGap # NoTime => clocks.lineGap >= LineDelay)
    /\ [][RunStep =>
            \A k \in (Len(updateQueue) + 1)..Len(updateQueue') :
                updateQueue'[k].op = "setCurrentLineIndex" =>
                    /\ updateQueue'[k].index >= 1
                    /\ clocks'.sinceComplete # NoTime
                    /\ clocks'.sinceComplete >= LineDelay]_vars

\* the second entry is being typed: characters were revealed one after the
\* other, and the first of this entry after the wait
C32_Witness ==
    /\ isAnimating
    /\ currentLineIndex = 1
    /\ clocks.revealGap # NoTime
    /\ clocks.lineGap # NoTime
    /\ clocks.sinceReveal = 0

----------------------------------------------------------------------------
(* What the Terminal shows: overrides and cursors, under Spec *)

\* C33: a forced display state decides lines, completeness and cursor index
\* whatever else is given; without one, showComplete shows every parsed line in
\* full and complete, isComplete true, the cursor index the number of lines,
\* whatever the driver's state; the driver is enabled only with isAnimating
\* and neither override.
C33_DisplayPriority ==
    \A f \in ForcedStates \cup {NoForced}, sc \in BOOLEAN :
        LET e == effectiveDisplay(sc, f)
        IN  /\ f \in ForcedStates =>
                /\ e.lines = f.lines
                /\ e.isComplete = f.complete
                /\ e.currentLineIndex = f.currentLineIndex
            /\ (f = NoForced /\ sc) =>
                /\ Len(e.lines) = Len(parsedLineInfo)
                /\ \A i \in 1..Len(e.lines) :
                       e.lines[i].text = parsedLineInfo[i].text /\ e.lines[i].complete
                /\ e.isComplete
                /\ e.currentLineIndex = Len(parsedLineInfo)
            /\ (f = NoForced /\ ~sc) =>
                /\ e.lines = displayedLines
                /\ e.isComplete = isComplete
                /\ e.currentLineIndex = currentLineIndex
            /\ (f \in ForcedStates \/ sc \/ ~isAnimating) => ~hookEnabled(isAnimating, sc, f)
            /\ (f = NoForced /\ ~sc /\ isAnimating) => hookEnabled(isAnimating, sc, f)

\* the driver is in the middle of a run: what it has differs from the full
\* display and from every forced state
C33_Witness ==
    /\ isAnimating
    /\ ~isComplete
    /\ displayedLines # <<>>
    /\ Len(displayedLines) < Len(lineTexts)
    /\ effectiveDisplay(TRUE, NoForced).lines # displayedLines

\* C38: the preview draws one cursor at most: the in-line cursor of an
\* incomplete current line and the resting cursor after the last line are
\* never drawn together.
C38_AtMostOneCursor ==
    Cardinality(InLineCursors)
        + (IF restingCursor(isComplete, displayedLines) THEN 1 ELSE 0) <= 1

----------------------------------------------------------------------------
(* Frame count, frame contents and cursors of generateAnimationFrames,
   under SpecGen *)

\* the frames that reveal characters of a typed entry
TypingFrames ==
    {k \in 1..Len(frames) : IsRevealFrame(k) /\ ~InstantAt(frames[k].cursorLineIndex)}

\* the typed entries that have text
TypedEntriesWithText ==
    {i \in 0..(NumEntries - 1) : ~InstantAt(i) /\ parsedLines[i + 1].text # <<>>}

\* C35: there are at most targetFrameCount typing frames plus one for each
\* typed entry with text, however many characters are typed.
C35_TypingFramesBounded ==
    frames # <<>> =>
        Cardinality(TypingFrames) <= targetFrameCount + Cardinality(TypedEntriesWithText)

\* a script with more typed characters than the bound allows frames
C35_Witness ==
    /\ frames # <<>>
    /\ TypedCharsOfScript > targetFrameCount + Cardinality(TypedEntriesWithText)
    /\ Cardinality(TypingFrames) = targetFrameCount + 2

\* C36: a frame shows the first k entries, none left out, each with a prefix
\* of its text; the lines below the cursor index are shown in full, no line
\* above it is shown; the cursor index is between 0 and the number of
\* entries and never decreases from one frame to the next.
C36_FramesShowAPrefixOfTheScript ==
    \A k \in 1..Len(frames) :
        LET f == frames[k]
        IN  /\ Len(f.lines) <= NumEntries
            /\ \A i \in 1..Len(f.lines) :
                   /\ IsPrefix(f.lines[i].text, parsedLines[i].text)
                   /\ f.lines[i].showPrompt = parsedLines[i].showPrompt
                   /\ i - 1 < f.cursorLineIndex => f.lines[i].text = parsedLines[i].text
            /\ Len(f.lines) <= f.cursorLineIndex + 1
            /\ 0 <= f.cursorLineIndex
            /\ f.cursorLineIndex <= NumEntries
            /\ k > 1 => frames[k - 1].cursorLineIndex <= f.cursorLineIndex

\* frames of three entries, one of them typed in two frames
C36_Witness ==
    /\ Len(frames) >= 6
    /\ NumEntries = 3
    /\ \E k \in 2..Len(frames) :
           /\ frames[k].cursorLineIndex = 1
           /\ frames[k - 1].cursorLineIndex = 1
           /\ Len(frames[k - 1].lines) = 2
           /\ Len(frames[k].lines) = 2
           /\ Len(frames[k - 1].lines[2].text) < Len(frames[k].lines[2].text)

\* C37: a frame is painted with one cursor: at the end of the line at the
\* cursor index when that line is shown, else on a new line after the last
\* line shown, which is where the cursor index of the warm-up, inter-line and
\* final frames points; never both.
C37_OneCursorPerFrame ==
    \A k \in 1..Len(frames) :
        LET f == frames[k]
            cur == drawTerminalCursors(f)
        IN  /\ Cardinality(cur.inLine) + (IF cur.newLine THEN 1 ELSE 0) = 1
            /\ f.cursorLineIndex < Len(f.lines) =>
                   cur.inLine = {f.cursorLineIndex} /\ ~cur.newLine
            /\ f.cursorLineIndex >= Len(f.lines) =>
                   /\ cur.inLine = {}
                   /\ cur.newLine
                   /\ f.cursorLineIndex = Len(f.lines)
            /\ (k = 1 \/ k = Len(frames)) => cur.newLine

\* frames of both kinds were generated: cursor in a line, cursor on a new line
C37_Witness ==
    /\ \E k \in 1..Len(frames) : drawTerminalCursors(frames[k]).inLine # {}
    /\ \E k \in 2..(Len(frames) - 1) : drawTerminalCursors(frames[k]).newLine

----------------------------------------------------------------------------
(* Canvas sizes of the frames, under SpecScale *)

\* C34: the frames of one call all have the same canvas, sized once from the
\* complete script and not from the lines a frame shows; with both target
\* dimensions given it is 2 * targetWidth by 2 * targetHeight.
C34_OneCanvasSize ==
    exportStep = "sized" =>
        /\ \A k \in 1..Len(frames) : frames[k].canvas = frames[1].canvas
        /\ useTargetDimensions =>
               frames[1].canvas = [width |-> Px(2 * target.width),
                                   height |-> Px(2 * target.height)]
        /\ ~useTargetDimensions =>
               frames[1].canvas = calculateCanvasDimensions(sizeConfig, content)

\* content-derived sizing of a script whose first frames, sized for what
\* they show, would have got a smaller canvas
C34_Witness ==
    /\ exportStep = "sized"
    /\ ~useTargetDimensions
    /\ content.lines = 40
    /\ calculateCanvasDimensions(sizeConfig, frames[1].shown).height
           < frames[1].canvas.height
    /\ calculateCanvasDimensions(sizeConfig, frames[2].shown).width
           < frames[2].canvas.width

\* C39: with content-derived sizing the canvas is as wide as every text row
\* painted, the leading parts of a prompt of several lines among them, plus
\* the padding on both sides.
C39_CanvasCoversEveryRow ==
    (exportStep = "scaled" /\ ~useTargetDimensions) =>
        \A w \in paintedRowWidths(AdjustedSizeConfig, content) :
            finalCanvasSize.width >= w + 2 * Px(adjustedConfig.padding * CanvasScale)

====
